---- MODULE Spec2Model ----
(***************************************************************************)
(* Compresso: the capability registry (backend/capabilities.py), the file  *)
(* inspector (backend/inspect.py), strategy selection (frontend/api.py),   *)
(* the compress_file / decompress_file wrappers (compresso/__init__.py)    *)
(* and, behind them, the container pipeline of the _core extension.        *)
(*                                                                         *)
(* Python values are modelled as follows.  Optional[T] is a sequence of    *)
(* length at most one: None is <<>>, a value x is <<x>>.  A str supplied   *)
(* by a caller is the sequence of its ASCII codes, so that str.lower() and *)
(* dict key equality are computed, not assumed.  Names that the program    *)
(* itself spells as lowercase literals are TLA+ strings, and Codes gives   *)
(* their characters.  bytes are sequences of integers in 0..255.           *)
(***************************************************************************)
EXTENDS Integers, Sequences, FiniteSets, TLC

VARIABLES
    build,          \* the backends compiled into _core (what get_capabilities reports)
    _cap_list,      \* capabilities.py module global: Optional[List[BackendCapabilities]]
    _cap_by_name,   \* capabilities.py module global: Optional[Dict[str, BackendCapabilities]]
    _cap_by_id,     \* capabilities.py module global: Optional[Dict[int, BackendCapabilities]]
    ret,            \* what the last registry / api call returned
    file,           \* the file at the path given to inspect
    insp,           \* what the last inspect(path) call did: its InspectResult or its exception
    src,            \* the bytes of the source file given to compress_file
    cfile,          \* the container file (dest of compress_file, src of decompress_file): Optional[bytes]
    ofile,          \* the dest of decompress_file: Optional[bytes]
    pc,             \* the pipeline step the current call is at
    args,           \* the arguments of the compress_file / decompress_file calls made
    job,            \* the locals of the pipeline call in progress
    opened,         \* the files the call in progress holds open
    cres,           \* how compress_file ended: "none" (not yet), "ok", or the error kind
    dres,           \* how decompress_file ended
    log,            \* history: the pipeline steps of the calls made, in order
    env,            \* history: what the environment did (a tampered container, a failed I/O call)
    threads,        \* the threads inside a registry call: each one's position and locals
    _SPEEDS_FILE,   \* speeds.py: the file ~/.compresso/speeds.json
    speed,          \* what the last speeds.py call did
    plan,           \* the plan the last plan_compression / plan_decompression call returned
    run             \* what the last CompressionJob.run / DecompressionJob.run call did

regVars == <<build, _cap_list, _cap_by_name, _cap_by_id, ret>>
inspVars == <<file, insp>>
pipeVars == <<src, cfile, ofile, pc, args, job, opened, cres, dres, log, env>>

extVars == <<threads, _SPEEDS_FILE, speed, plan, run>>

vars == <<regVars, inspVars, pipeVars, extVars>>

-----------------------------------------------------------------------------
(* Python values *)

None == <<>>
Some(x) == <<x>>
IsNone(o) == Len(o) = 0
Val(o) == o[1]

\* dict[k] = v
DictPut(d, k, v) == [x \in (DOMAIN d) \cup {k} |-> IF x = k THEN v ELSE d[x]]
EmptyDict == [x \in {} |-> 0]

\* str.lower() on one ASCII character, and on a str
LowerChar(c) == IF c >= 65 /\ c <= 90 THEN c + 32 ELSE c
Lower(s) == [i \in DOMAIN s |-> LowerChar(s[i])]
UpperChar(c) == IF c >= 97 /\ c <= 122 THEN c - 32 ELSE c

\* s with the characters at the positions in mask in capitals
Variant(s, mask) == [i \in DOMAIN s |-> IF i \in mask THEN UpperChar(s[i]) ELSE s[i]]

\* The characters of the lowercase literals the program spells out.
Codes ==
    [ zlib      |-> <<122, 108, 105, 98>>,
      bzip2     |-> <<98, 122, 105, 112, 50>>,
      lzma      |-> <<108, 122, 109, 97>>,
      zstd      |-> <<122, 115, 116, 100>>,
      lz4       |-> <<108, 122, 52>>,
      snappy    |-> <<115, 110, 97, 112, 112, 121>>,
      gzip      |-> <<103, 122, 105, 112>>,
      fast      |-> <<102, 97, 115, 116>>,
      balanced  |-> <<98, 97, 108, 97, 110, 99, 101, 100>>,
      max_ratio |-> <<109, 97, 120, 95, 114, 97, 116, 105, 111>> ]

-----------------------------------------------------------------------------
(* The backends of the build: _core.get_capabilities() *)

AlgoNames == <<"zlib", "bzip2", "lzma", "zstd", "lz4", "snappy">>
AlgoSet == {AlgoNames[i] : i \in DOMAIN AlgoNames}

\* The numeric id persisted in containers, one per backend, in [1, 255].
BackendId ==
    [ zlib |-> 1, bzip2 |-> 2, lzma |-> 3, zstd |-> 4, lz4 |-> 5, snappy |-> 6 ]

RECURSIVE FilterNames(_, _)
FilterNames(names, S) ==
    IF names = <<>> THEN <<>>
    ELSE IF Head(names) \in S
         THEN <<Head(names)>> \o FilterNames(Tail(names), S)
         ELSE FilterNames(Tail(names), S)

\* The list of dicts _core.get_capabilities() returns for a build with backends S.
get_capabilities(S) ==
    LET names == FilterNames(AlgoNames, S)
    IN  [i \in DOMAIN names |->
            [name |-> names[i], id |-> BackendId[names[i]],
             has_buffer |-> TRUE, has_stream |-> TRUE]]

-----------------------------------------------------------------------------
(* backend/capabilities.py *)

\* BackendCapabilities(name, id, has_buffer, has_stream)
BackendCapabilities(item) ==
    [name |-> item.name, id |-> item.id,
     has_buffer |-> item.has_buffer, has_stream |-> item.has_stream]

\* The loop of _load_capabilities over raw, from position i, accumulating
\* caps, by_name and by_id.
RECURSIVE LoadLoop(_, _, _)
LoadLoop(raw, i, acc) ==
    IF i > Len(raw) THEN acc
    ELSE LET cap == BackendCapabilities(raw[i])
         IN  LoadLoop(raw, i + 1,
                [caps    |-> Append(acc.caps, cap),
                 by_name |-> DictPut(acc.by_name, cap.name, cap),
                 by_id   |-> DictPut(acc.by_id, cap.id, cap)])

\* _load_capabilities(): the three indexes built from the build's backends.
_load_capabilities(S) ==
    LoadLoop(get_capabilities(S), 1,
             [caps |-> <<>>, by_name |-> EmptyDict, by_id |-> EmptyDict])

\* The globals after `if _cap_X is None: _load_capabilities()`.
Loaded(isNone) ==
    IF isNone
    THEN LET r == _load_capabilities(build)
         IN  [list |-> Some(r.caps), by_name |-> Some(r.by_name), by_id |-> Some(r.by_id)]
    ELSE [list |-> _cap_list, by_name |-> _cap_by_name, by_id |-> _cap_by_id]

SetGlobals(g) ==
    /\ _cap_list' = g.list
    /\ _cap_by_name' = g.by_name
    /\ _cap_by_id' = g.by_id

\* dict.get(name) on a dict keyed by backend names, for a caller's str:
\* a key matches when it has the same characters.
DictGetByStr(d, s) ==
    IF \E k \in DOMAIN d : Codes[k] = s
    THEN Some(d[CHOOSE k \in DOMAIN d : Codes[k] = s])
    ELSE None

DictGet(d, k) == IF k \in DOMAIN d THEN Some(d[k]) ELSE None

NoRet == [op |-> "none", str |-> <<>>, id |-> 0, list |-> <<>>, cap |-> None, name |-> None]

\* list_capabilities()
list_capabilities ==
    LET g == Loaded(IsNone(_cap_list))
    IN  /\ SetGlobals(g)
        /\ ret' = [NoRet EXCEPT !.op = "list_capabilities", !.list = Val(g.list)]
        /\ UNCHANGED <<build, inspVars, pipeVars, extVars>>

\* get_by_name(name)
get_by_name(name) ==
    LET g == Loaded(IsNone(_cap_by_name))
    IN  /\ SetGlobals(g)
        /\ ret' = [NoRet EXCEPT !.op = "get_by_name", !.str = name,
                                !.cap = DictGetByStr(Val(g.by_name), name)]
        /\ UNCHANGED <<build, inspVars, pipeVars, extVars>>

\* get_by_id(cid)
get_by_id(cid) ==
    LET g == Loaded(IsNone(_cap_by_id))
    IN  /\ SetGlobals(g)
        /\ ret' = [NoRet EXCEPT !.op = "get_by_id", !.id = cid,
                                !.cap = DictGet(Val(g.by_id), cid)]
        /\ UNCHANGED <<build, inspVars, pipeVars, extVars>>

-----------------------------------------------------------------------------
(* frontend/api.py: _choose_backend_for_strategy *)

FastPreference == <<"lz4", "snappy", "zstd", "zlib", "bzip2", "lzma">>
MaxRatioPreference == <<"bzip2", "lzma", "zstd", "zlib", "lz4", "snappy">>
\* the balanced list with its first two entries exchanged
BalancedPreference_swapped == <<"zlib", "zstd", "bzip2", "lzma", "lz4", "snappy">>
BalancedPreference == <<"zstd", "zlib", "bzip2", "lzma", "lz4", "snappy">>

\* by_name = {cap.name: cap for cap in caps}
ByNameOf(caps) ==
    LET names == {caps[i].name : i \in DOMAIN caps}
    IN  [n \in names |-> caps[CHOOSE i \in DOMAIN caps :
                                /\ caps[i].name = n
                                /\ \A j \in DOMAIN caps : caps[j].name = n => j <= i]]

RECURSIVE first_available(_, _)
first_available(names, by_name) ==
    IF names = <<>> THEN None
    ELSE IF ~IsNone(DictGet(by_name, Head(names)))
         THEN Some(Head(names))
         ELSE first_available(Tail(names), by_name)

\* The value _choose_backend_for_strategy returns, given what
\* list_capabilities() returned.
ChooseFromCaps(strategy, caps) ==
    LET s == Lower(IF Len(strategy) = 0 THEN Codes.balanced ELSE strategy)
        by_name == ByNameOf(caps)
    IN  IF s = Codes.fast THEN first_available(FastPreference, by_name)
        ELSE IF s = Codes.max_ratio THEN first_available(MaxRatioPreference, by_name)
        ELSE first_available(BalancedPreference, by_name)

\* _choose_backend_for_strategy(strategy), list_capabilities() included
_choose_backend_for_strategy(strategy) ==
    LET g == Loaded(IsNone(_cap_list))
    IN  /\ SetGlobals(g)
        /\ ret' = [NoRet EXCEPT !.op = "choose", !.str = strategy,
                                !.name = ChooseFromCaps(strategy, Val(g.list))]
        /\ UNCHANGED <<build, inspVars, pipeVars, extVars>>

-----------------------------------------------------------------------------
(* The container header as _core writes it *)

MagicCOMP == <<67, 79, 77, 80>>

\* n as k little-endian bytes
RECURSIVE LEBytes(_, _)
LEBytes(n, k) == IF k = 0 THEN <<>> ELSE <<n % 256>> \o LEBytes(n \div 256, k - 1)

\* the unsigned integer a little-endian byte string holds
RECURSIVE LEValue(_)
LEValue(b) == IF b = <<>> THEN 0 ELSE Head(b) + 256 * LEValue(Tail(b))

\* The level byte: 0xFF for an unspecified level.
LevelByte(level) == IF IsNone(level) THEN 255 ELSE Val(level)

\* write_header(writer, algo_id, level, orig_size): magic, version 1, algo_id,
\* level, flags 0, orig_size as 8 little-endian bytes.
write_header(algo_id, level, orig_size) ==
    MagicCOMP \o <<1, algo_id, LevelByte(level), 0>> \o LEBytes(orig_size, 8)

-----------------------------------------------------------------------------
(* backend/inspect.py *)

\* struct.Struct("<4sBBBQ"): the fields of the format string, in order
COMP_HEADER_STRUCT ==
    << [code |-> "s", size |-> 4], [code |-> "B", size |-> 1], [code |-> "B", size |-> 1],
       [code |-> "B", size |-> 1], [code |-> "Q", size |-> 8] >>

RECURSIVE StructSize(_)
StructSize(fmt) == IF fmt = <<>> THEN 0 ELSE Head(fmt).size + StructSize(Tail(fmt))

\* COMP_HEADER_STRUCT.size
COMP_HEADER_STRUCT_size == StructSize(COMP_HEADER_STRUCT)

\* Struct.unpack(data): one value per field of the format; an "s" field is the
\* bytes themselves, "B" and "Q" are little-endian unsigned integers.
RECURSIVE StructUnpack(_, _)
StructUnpack(fmt, data) ==
    IF fmt = <<>> THEN <<>>
    ELSE LET f == Head(fmt)
             raw == SubSeq(data, 1, f.size)
             v == IF f.code = "s" THEN [s |-> raw, n |-> 0] ELSE [s |-> <<>>, n |-> LEValue(raw)]
         IN  <<v>> \o StructUnpack(Tail(fmt), SubSeq(data, f.size + 1, Len(data)))

\* The names on the left of the unpacking assignment at inspect.py:136.
UnpackTargets == <<"magic", "version", "algo_id", "level", "flags", "orig_size">>

\* _EST_MB_S
_EST_MB_S ==
    [ zlib |-> 200, bzip2 |-> 50, lzma |-> 30, zstd |-> 400, lz4 |-> 800, snappy |-> 600 ]

MiB == 1024 * 1024

\* An InspectResult built without its reason.
Result_noReason(is_compresso, header_ok, reason, version) ==
    [ raised |-> "none", is_compresso |-> is_compresso, header_ok |-> header_ok,
      reason |-> None, version |-> version, algo_id |-> None, algo_name |-> None,
      level |-> None, flags |-> None, orig_size |-> None, backend_available |-> FALSE,
      has_streaming |-> FALSE, can_decompress |-> FALSE, estimated_decomp_s |-> None ]

\* An InspectResult; raised names the exception when inspect raised instead.
Result(is_compresso, header_ok, reason, version) ==
    [ raised |-> "none", is_compresso |-> is_compresso, header_ok |-> header_ok,
      reason |-> reason, version |-> version, algo_id |-> None, algo_name |-> None,
      level |-> None, flags |-> None, orig_size |-> None, backend_available |-> FALSE,
      has_streaming |-> FALSE, can_decompress |-> FALSE, estimated_decomp_s |-> None ]

Raise(exc) == [Result(FALSE, FALSE, None, None) EXCEPT !.raised = exc]

\* inspect.py:174-207, with the header's fields unpacked and cap = get_by_id(algo_id).
\* BackendCapabilities has the attributes name, id, has_buffer and has_stream only.
InspectParsed(version, algo_id, level, flags, orig_size, cap) ==
    IF ~IsNone(cap) /\ "is_available" \notin DOMAIN Val(cap) THEN Raise("AttributeError")
    ELSE IF ~IsNone(cap) /\ "has_streaming" \notin DOMAIN Val(cap) THEN Raise("AttributeError")
    ELSE
    LET backend_available == ~IsNone(cap) /\ Val(cap).is_available
        algo_name == IF ~IsNone(cap) THEN Some(Val(cap).name) ELSE None
        has_streaming == IF ~IsNone(cap) THEN Val(cap).has_streaming ELSE FALSE
        can_decompress == backend_available
        reason == IF ~can_decompress THEN Some("No available backend for this algorithm") ELSE None
        mb_s == IF ~IsNone(algo_name) /\ Val(algo_name) \in DOMAIN _EST_MB_S
                THEN _EST_MB_S[Val(algo_name)] ELSE 200
        est_time == IF can_decompress /\ orig_size > 0
                    THEN Some([num |-> orig_size, den |-> mb_s * MiB]) ELSE None
    IN  [ raised |-> "none", is_compresso |-> TRUE, header_ok |-> TRUE, reason |-> reason,
          version |-> Some(version), algo_id |-> Some(algo_id), algo_name |-> algo_name,
          level |-> IF level # 255 THEN Some(level) ELSE None,
          flags |-> Some(flags), orig_size |-> Some(orig_size),
          backend_available |-> backend_available, has_streaming |-> has_streaming,
          can_decompress |-> can_decompress, estimated_decomp_s |-> est_time ]

\* Whether inspect(path) gets as far as get_by_id(algo_id) on file f.
ReachesGetById(f) ==
    /\ f.kind = "file"
    /\ Len(f.data) >= COMP_HEADER_STRUCT_size
    /\ LET v == StructUnpack(COMP_HEADER_STRUCT, SubSeq(f.data, 1, COMP_HEADER_STRUCT_size))
       IN  /\ Len(v) = Len(UnpackTargets)
           /\ v[1].s = MagicCOMP
           /\ v[2].n = 1

\* What inspect(path) returns or raises on file f; by_id is the registry's id index.
InspectFile(f, by_id) ==
    IF f.kind = "missing" THEN Result(FALSE, FALSE, Some("Not a file"), None)
    ELSE IF f.kind = "unreadable" THEN Result(FALSE, FALSE, Some("Failed to read file"), None)
    ELSE
    LET data == SubSeq(f.data, 1, IF Len(f.data) < COMP_HEADER_STRUCT_size
                                  THEN Len(f.data) ELSE COMP_HEADER_STRUCT_size)
    IN  IF Len(data) < COMP_HEADER_STRUCT_size
        THEN Result(FALSE, FALSE, Some("File too small to be a valid Compresso file"), None)
        ELSE
        LET v == StructUnpack(COMP_HEADER_STRUCT, data)
        IN  IF Len(v) # Len(UnpackTargets) THEN Raise("ValueError")
            ELSE IF v[1].s # MagicCOMP
            THEN Result(FALSE, FALSE, Some("Magic bytes do not match Compresso format"), None)
            ELSE IF v[2].n # 1
            THEN Result(TRUE, FALSE, Some("Unsupported header version"), Some(v[2].n))
            ELSE InspectParsed(v[2].n, v[3].n, v[4].n, v[5].n, v[6].n, DictGet(by_id, v[3].n))

NoFile == [kind |-> "missing", data |-> <<>>, hdr |-> None]
NoInsp == [Result(FALSE, FALSE, None, None) EXCEPT !.raised = "not called"]

\* inspect(path), the lazy load of the registry by get_by_id included
inspect ==
    LET g == Loaded(ReachesGetById(file) /\ IsNone(_cap_by_id))
    IN  /\ SetGlobals(g)
        /\ insp' = InspectFile(file, IF ReachesGetById(file) THEN Val(g.by_id) ELSE EmptyDict)
        /\ UNCHANGED <<build, ret, file, pipeVars, extVars>>

-----------------------------------------------------------------------------
(* compresso/__init__.py: the wrappers around _core *)

\* `lvl = -1 if level is None else int(level)`
WrapLevel(level) == IF IsNone(level) THEN -1 ELSE Val(level)

\* `algo or ""`, `strategy or ""`
OrEmpty(s) == IF IsNone(s) THEN <<>> ELSE Val(s)

-----------------------------------------------------------------------------
(* _core: the codec sessions, the router and the container pipeline *)

ChunkSize == 2

HeaderLen == Len(write_header(0, None, 0))

\* The level argument _core receives: -1 stands for "unspecified".
LevelValid(lvl) == lvl = -1 \/ (lvl >= 0 /\ lvl <= 9)
LevelOf(lvl) == IF lvl = -1 THEN None ELSE Some(lvl)

\* by_name(s): case-insensitive exact match among the build's backends
RouterByName(s, S) ==
    IF \E n \in S : Codes[n] = Lower(s)
    THEN Some(CHOOSE n \in S : Codes[n] = Lower(s)) ELSE None

\* by_id(u8)
RouterById(id, S) ==
    IF \E n \in S : BackendId[n] = id
    THEN Some(CHOOSE n \in S : BackendId[n] = id) ELSE None

RECURSIVE FirstIn(_, _)
FirstIn(pref, S) ==
    IF pref = <<>> THEN None
    ELSE IF Head(pref) \in S THEN Some(Head(pref)) ELSE FirstIn(Tail(pref), S)

\* choose(strategy): the preference tables; an empty strategy is "balanced"
RouterChoose(strategy, S) ==
    IF Lower(strategy) = Codes.fast
    THEN FirstIn(<<"lz4", "snappy", "zstd", "zlib", "bzip2", "lzma">>, S)
    ELSE IF Lower(strategy) = Codes.max_ratio
    THEN FirstIn(<<"bzip2", "lzma", "zstd", "zlib", "lz4", "snappy">>, S)
    ELSE FirstIn(<<"zstd", "zlib", "bzip2", "lzma", "lz4", "snappy">>, S)

\* Select backend: an explicit name overrides the heuristic.
SelectBackend(algo, strategy, S) ==
    IF Len(algo) > 0 THEN RouterByName(algo, S) ELSE RouterChoose(strategy, S)

\* One byte through a backend's transform and back.
EncodeByte(b, id) == (b + id) % 256
\* DecodeByte without the wrap-around at 0
DecodeByte_noWrap(b, id) == b - id
DecodeByte(b, id) == (b + 256 - id) % 256

\* EncoderSession.push(bytes): one frame, its length then its transformed bytes
EncoderPush(chunk, id) == <<Len(chunk)>> \o [i \in DOMAIN chunk |-> EncodeByte(chunk[i], id)]

\* EncoderSession.finish(): the end-of-stream marker
EncoderFinish == <<0>>

\* A DecoderSession: need bytes are left of the current frame; ended once the
\* end-of-stream marker was read; failed on bytes after the end of the stream.
NewDecoder == [need |-> 0, ended |-> FALSE, failed |-> FALSE, out |-> <<>>]

DecoderByte(st, b, id) ==
    IF st.failed THEN st
    ELSE IF st.ended THEN [st EXCEPT !.failed = TRUE]
    ELSE IF st.need = 0
         THEN IF b = 0 THEN [st EXCEPT !.ended = TRUE] ELSE [st EXCEPT !.need = b]
         ELSE [st EXCEPT !.need = st.need - 1, !.out = Append(st.out, DecodeByte(b, id))]

\* DecoderSession.push(bytes): the session after the bytes, out holding the bytes decoded
RECURSIVE DecoderPush(_, _, _)
DecoderPush(st, bytes, id) ==
    IF bytes = <<>> THEN st
    ELSE DecoderPush(DecoderByte(st, Head(bytes), id), Tail(bytes), id)

\* DecoderSession.finish() that does not notice a missing end of stream
DecoderFinishFails_ignoresEnd(st) == st.failed

\* DecoderSession.finish() fails if the input ended mid-frame or before the end marker.
DecoderFinishFails(st) == st.failed \/ ~st.ended

\* read_header(reader): the fields of the header at the start of data
read_header(data) ==
    [ magic     |-> SubSeq(data, 1, 4),
      version   |-> data[5],
      algo_id   |-> data[6],
      level     |-> IF data[7] = 255 THEN None ELSE Some(data[7]),
      flags     |-> data[8],
      orig_size |-> LEValue(SubSeq(data, 9, 16)) ]

\* read(n) at position pos
ReadChunk(data, pos, n) ==
    SubSeq(data, pos + 1, IF pos + n < Len(data) THEN pos + n ELSE Len(data))

NoJob == [backend |-> None, level |-> None, rpos |-> 0, counter |-> 0,
          dec |-> NewDecoder, hdr |-> None]
NoArgs == [algo |-> None, strategy |-> None, level |-> None, dalgo |-> None]
NoEnv == [tamper |-> "none", failed |-> FALSE]

PipelineIdle ==
    /\ src = <<>>
    /\ cfile = None
    /\ ofile = None
    /\ pc = "idle"
    /\ args = NoArgs
    /\ job = NoJob
    /\ opened = {}
    /\ cres = "none"
    /\ dres = "none"
    /\ log = <<>>
    /\ env = NoEnv

\* compress_file fails: the first error is surfaced, the files are closed and
\* dest is unlinked.
CompressFails(kind) ==
    /\ cres' = kind
    /\ pc' = "c_done"
    /\ opened' = {}
    /\ cfile' = None
    /\ log' = Append(log, "unlink")
    /\ UNCHANGED <<src, ofile, dres>>

\* compress_file(src_path, dest_path, algo=, strategy=, level=): the wrapper,
\* then _core's check of the level before any file is touched.
compress_file(algo, strategy, level) ==
    /\ pc = "idle"
    /\ args' = [args EXCEPT !.algo = algo, !.strategy = strategy, !.level = level]
    /\ LET lvl == WrapLevel(level)
       IN  IF LevelValid(lvl)
           THEN /\ pc' = "c_open"
                /\ job' = [NoJob EXCEPT !.level = LevelOf(lvl)]
                /\ UNCHANGED cres
           ELSE /\ pc' = "c_done"
                /\ cres' = "Error"
                /\ UNCHANGED job
    /\ UNCHANGED <<src, cfile, ofile, opened, dres, log, env>>
    /\ UNCHANGED <<regVars, inspVars, extVars>>

\* 1. Open src for read, dest for create-truncate-write.
CompressOpen ==
    /\ pc = "c_open"
    /\ opened' = {"src", "dest"}
    /\ cfile' = Some(<<>>)
    /\ pc' = "c_select"
    /\ log' = Append(log, "open")
    /\ UNCHANGED <<src, ofile, args, job, cres, dres, env>>
    /\ UNCHANGED <<regVars, inspVars, extVars>>

\* 2. Select backend.
CompressSelect ==
    /\ pc = "c_select"
    /\ LET b == SelectBackend(OrEmpty(args.algo), OrEmpty(args.strategy), build)
       IN  IF IsNone(b)
           THEN CompressFails("Error") /\ UNCHANGED job
           ELSE /\ job' = [job EXCEPT !.backend = b]
                /\ pc' = "c_header"
                /\ log' = Append(log, "select")
                /\ UNCHANGED <<src, cfile, ofile, opened, cres, dres>>
    /\ UNCHANGED <<args, env>>
    /\ UNCHANGED <<regVars, inspVars, extVars>>

\* The first header already holding the size of the source
CompressHeader_sizeFromSource ==
    /\ pc = "c_header"
    /\ cfile' = Some(write_header(BackendId[Val(job.backend)], job.level, Len(src)))
    /\ pc' = "c_loop"
    /\ log' = Append(log, "header")
    /\ UNCHANGED <<src, ofile, args, job, opened, cres, dres, env>>
    /\ UNCHANGED <<regVars, inspVars, extVars>>

\* 3. Write a provisional header with orig_size = 0.
CompressHeader ==
    /\ pc = "c_header"
    /\ cfile' = Some(write_header(BackendId[Val(job.backend)], job.level, 0))
    /\ pc' = "c_loop"
    /\ log' = Append(log, "header")
    /\ UNCHANGED <<src, ofile, args, job, opened, cres, dres, env>>
    /\ UNCHANGED <<regVars, inspVars, extVars>>

\* 4. Read a chunk; if empty, leave the loop; else encode, write, count.
CompressChunk ==
    /\ pc = "c_loop"
    /\ LET chunk == ReadChunk(src, job.rpos, ChunkSize)
       IN  IF chunk = <<>>
           THEN /\ pc' = "c_finish"
                /\ UNCHANGED <<cfile, job, log>>
           ELSE /\ cfile' = Some(Val(cfile) \o EncoderPush(chunk, BackendId[Val(job.backend)]))
                /\ job' = [job EXCEPT !.rpos = job.rpos + Len(chunk),
                                      !.counter = job.counter + Len(chunk)]
                /\ log' = Append(log, "chunk")
                /\ UNCHANGED pc
    /\ UNCHANGED <<src, ofile, args, opened, cres, dres, env>>
    /\ UNCHANGED <<regVars, inspVars, extVars>>

\* 5. Encoder finish; write the trailing bytes.
CompressFinish ==
    /\ pc = "c_finish"
    /\ cfile' = Some(Val(cfile) \o EncoderFinish)
    /\ pc' = "c_rewrite"
    /\ log' = Append(log, "finish")
    /\ UNCHANGED <<src, ofile, args, job, opened, cres, dres, env>>
    /\ UNCHANGED <<regVars, inspVars, extVars>>

\* 6. Seek dest to offset 0 and rewrite the header with the counter as orig_size.
CompressRewrite ==
    /\ pc = "c_rewrite"
    /\ cfile' = Some(write_header(BackendId[Val(job.backend)], job.level, job.counter)
                     \o SubSeq(Val(cfile), HeaderLen + 1, Len(Val(cfile))))
    /\ pc' = "c_close"
    /\ log' = Append(log, "rewrite")
    /\ UNCHANGED <<src, ofile, args, job, opened, cres, dres, env>>
    /\ UNCHANGED <<regVars, inspVars, extVars>>

\* 7. Close both files and return.
CompressClose ==
    /\ pc = "c_close"
    /\ opened' = {}
    /\ cres' = "ok"
    /\ pc' = "c_done"
    /\ log' = Append(log, "close")
    /\ UNCHANGED <<src, cfile, ofile, args, job, dres, env>>
    /\ UNCHANGED <<regVars, inspVars, extVars>>

\* The step compress_file is at fails: an I/O call on src or dest (any step
\* from the open on), or the encoder (while encoding or finishing).
CompressStepFails(kind) ==
    /\ pc \in {"c_open", "c_header", "c_loop", "c_finish", "c_rewrite", "c_close"}
    /\ kind = "BackendError" => pc \in {"c_loop", "c_finish"}
    /\ CompressFails(kind)
    /\ env' = [env EXCEPT !.failed = TRUE]
    /\ UNCHANGED <<args, job>>
    /\ UNCHANGED <<regVars, inspVars, extVars>>

\* decompress_file failing without deleting dest
DecompressFails_keepsDest(kind) ==
    /\ dres' = kind
    /\ pc' = "d_done"
    /\ opened' = {}
    /\ log' = Append(log, "unlink")
    /\ UNCHANGED <<src, cfile, ofile, cres>>

\* decompress_file fails: the first error is surfaced, the files are closed and
\* dest is deleted.
DecompressFails(kind) ==
    /\ dres' = kind
    /\ pc' = "d_done"
    /\ opened' = {}
    /\ ofile' = None
    /\ log' = Append(log, "unlink")
    /\ UNCHANGED <<src, cfile, cres>>

\* decompress_file(src_path, dest_path, algo=): the wrapper entering _core
decompress_file(algo) ==
    /\ pc = "c_done"
    /\ cres = "ok"
    /\ args' = [args EXCEPT !.dalgo = algo]
    /\ job' = NoJob
    /\ pc' = "d_open"
    /\ log' = <<>>
    /\ UNCHANGED <<src, cfile, ofile, opened, cres, dres, env>>
    /\ UNCHANGED <<regVars, inspVars, extVars>>

\* 1. Open src, read header: a short read, a wrong magic and a wrong version
\* are header errors.
DecompressOpen ==
    /\ pc = "d_open"
    /\ LET data == Val(cfile)
       IN  IF Len(data) < HeaderLen \/ read_header(data).magic # MagicCOMP
              \/ read_header(data).version # 1
           THEN DecompressFails("HeaderError") /\ UNCHANGED job
           ELSE /\ job' = [job EXCEPT !.hdr = Some(read_header(data)), !.rpos = HeaderLen]
                /\ opened' = {"src"}
                /\ pc' = "d_select"
                /\ log' = Append(log, "open")
                /\ UNCHANGED <<src, cfile, ofile, cres, dres>>
    /\ UNCHANGED <<args, env>>
    /\ UNCHANGED <<regVars, inspVars, extVars>>

\* 2. Resolve the backend by id, or by the caller's name; then create dest.
DecompressSelect ==
    /\ pc = "d_select"
    /\ LET name == OrEmpty(args.dalgo)
           b == IF Len(name) > 0 THEN RouterByName(name, build)
                ELSE RouterById(Val(job.hdr).algo_id, build)
       IN  IF IsNone(b)
           THEN DecompressFails("BackendError") /\ UNCHANGED job
           ELSE /\ job' = [job EXCEPT !.backend = b]
                /\ opened' = {"src", "dest"}
                /\ ofile' = Some(<<>>)
                /\ pc' = "d_loop"
                /\ log' = Append(log, "select")
                /\ UNCHANGED <<src, cfile, cres, dres>>
    /\ UNCHANGED <<args, env>>
    /\ UNCHANGED <<regVars, inspVars, extVars>>

\* 3. Read a chunk of the payload; decode it; write the decoder's output.
DecompressChunk ==
    /\ pc = "d_loop"
    /\ LET chunk == ReadChunk(Val(cfile), job.rpos, ChunkSize)
           st == DecoderPush([job.dec EXCEPT !.out = <<>>], chunk, BackendId[Val(job.backend)])
       IN  IF chunk = <<>>
           THEN /\ pc' = "d_finish"
                /\ UNCHANGED <<src, cfile, ofile, opened, cres, dres, job, log>>
           ELSE IF st.failed
           THEN DecompressFails("BackendError") /\ UNCHANGED job
           ELSE /\ ofile' = Some(Val(ofile) \o st.out)
                /\ job' = [job EXCEPT !.rpos = job.rpos + Len(chunk),
                                      !.counter = job.counter + Len(st.out),
                                      !.dec = st]
                /\ log' = Append(log, "chunk")
                /\ UNCHANGED <<src, cfile, opened, cres, dres, pc>>
    /\ UNCHANGED <<args, env>>
    /\ UNCHANGED <<regVars, inspVars, extVars>>

\* 4. Decoder finish.
DecompressFinish ==
    /\ pc = "d_finish"
    /\ IF DecoderFinishFails(job.dec)
       THEN DecompressFails("BackendError")
       ELSE /\ pc' = "d_verify"
            /\ log' = Append(log, "finish")
            /\ UNCHANGED <<src, cfile, ofile, opened, cres, dres>>
    /\ UNCHANGED <<args, job, env>>
    /\ UNCHANGED <<regVars, inspVars, extVars>>

\* 5. Verify decoded bytes == header orig_size.
DecompressVerify ==
    /\ pc = "d_verify"
    /\ IF job.counter # Val(job.hdr).orig_size
       THEN DecompressFails("BackendError")
       ELSE /\ pc' = "d_close"
            /\ log' = Append(log, "verify")
            /\ UNCHANGED <<src, cfile, ofile, opened, cres, dres>>
    /\ UNCHANGED <<args, job, env>>
    /\ UNCHANGED <<regVars, inspVars, extVars>>

\* 6. Close both files and return.
DecompressClose ==
    /\ pc = "d_close"
    /\ opened' = {}
    /\ dres' = "ok"
    /\ pc' = "d_done"
    /\ log' = Append(log, "close")
    /\ UNCHANGED <<src, cfile, ofile, args, job, cres, env>>
    /\ UNCHANGED <<regVars, inspVars, extVars>>

\* An I/O call of the step decompress_file is at fails.
DecompressStepFails ==
    /\ pc \in {"d_open", "d_select", "d_loop", "d_close"}
    /\ env.tamper = "none"
    /\ DecompressFails("Error")
    /\ env' = [env EXCEPT !.failed = TRUE]
    /\ UNCHANGED <<args, job>>
    /\ UNCHANGED <<regVars, inspVars, extVars>>

-----------------------------------------------------------------------------
(* The state before any thread, speeds.py call or frontend call *)

NoThreads == <<>>
NoSpeedsFile == [kind |-> "missing"]
NoSpeed ==
    [op |-> "none", algo |-> <<>>, operation |-> "", results |-> <<>>,
     raised |-> "none", value |-> [n |-> 0, d |-> 1]]
NoOptions == [algo |-> None, strategy |-> <<>>, level |-> None]
NoPlan ==
    [kind |-> "none", raised |-> "none", is_file |-> FALSE, options |-> NoOptions,
     input_size |-> 0, backend_name |-> None, estimated_seconds |-> None,
     can_compress |-> FALSE, reason_if_unavailable |-> None, inspection |-> NoInsp]
NoRun ==
    [kind |-> "none", stage |-> "idle", progress |-> FALSE, total |-> 0,
     events |-> <<>>, ok |-> FALSE, error |-> None]

ExtIdle ==
    /\ threads = NoThreads
    /\ _SPEEDS_FILE = NoSpeedsFile
    /\ speed = NoSpeed
    /\ plan = NoPlan
    /\ run = NoRun

-----------------------------------------------------------------------------
(* The pipeline between a source file and a container that may be damaged
   before it is read back *)

MaxLen == 3

ByteInputs == {7, 255}

RECURSIVE SeqsUpTo(_, _)
SeqsUpTo(S, n) ==
    IF n = 0 THEN {<<>>}
    ELSE LET shorter == SeqsUpTo(S, n - 1)
         IN  shorter \cup {Append(x, b) : x \in {y \in shorter : Len(y) = n - 1}, b \in S}

SourceInputs == SeqsUpTo(ByteInputs, MaxLen)

AlgoArgs == {None} \cup {Some(Codes[n]) : n \in AlgoSet} \cup {Some(Variant(Codes.zlib, {1}))}
StrategyArgs == {None, Some(Codes.fast), Some(Codes.max_ratio)}
LevelArgs == {None} \cup {Some(l) : l \in -2..10}
PipelineBuilds == {AlgoSet \ {"lz4"}}

\* Between the two calls the container loses its last byte, gains a byte at
\* the end, or has one byte overwritten.
Tamper(kind) ==
    /\ pc = "c_done"
    /\ cres = "ok"
    /\ env.tamper = "none"
    /\ LET data == Val(cfile)
       IN  cfile' = Some(
             CASE kind = "truncate" -> SubSeq(data, 1, Len(data) - 1)
               [] kind = "pad"      -> Append(data, 0)
               [] kind = "cut"      -> SubSeq(data, 1, HeaderLen - 1)
               [] kind = "magic"    -> [data EXCEPT ![1] = 88]
               [] kind = "version"  -> [data EXCEPT ![5] = 2]
               [] kind = "algo_id"  -> [data EXCEPT ![6] = 9]
               [] kind = "size"     -> [data EXCEPT ![9] = (data[9] + 1) % 256])
    /\ env' = [env EXCEPT !.tamper = kind]
    /\ UNCHANGED <<src, ofile, pc, args, job, opened, cres, dres, log>>
    /\ UNCHANGED <<regVars, inspVars, extVars>>

TamperKinds == {"truncate", "pad", "cut", "magic", "version", "algo_id", "size"}

Init ==
    /\ build \in PipelineBuilds
    /\ _cap_list = None
    /\ _cap_by_name = None
    /\ _cap_by_id = None
    /\ ret = NoRet
    /\ file = NoFile
    /\ insp = NoInsp
    /\ src \in SourceInputs
    /\ cfile = None
    /\ ofile = None
    /\ pc = "idle"
    /\ args = NoArgs
    /\ job = NoJob
    /\ opened = {}
    /\ cres = "none"
    /\ dres = "none"
    /\ log = <<>>
    /\ env = NoEnv
    /\ ExtIdle

Next ==
    \/ \E a \in AlgoArgs, s \in StrategyArgs, l \in LevelArgs :
          /\ (a # None => s = None)
          /\ compress_file(a, s, l)
    \/ CompressOpen
    \/ CompressSelect
    \/ CompressHeader
    \/ CompressChunk
    \/ CompressFinish
    \/ CompressRewrite
    \/ CompressClose
    \/ \E kind \in {"Error", "BackendError"} : CompressStepFails(kind)
    \/ \E kind \in TamperKinds : Tamper(kind)
    \/ \E a \in {None, Some(Codes.zlib)} :
          /\ (a # None => env.tamper = "none")
          /\ decompress_file(a)
    \/ DecompressOpen
    \/ DecompressSelect
    \/ DecompressChunk
    \/ DecompressFinish
    \/ DecompressVerify
    \/ DecompressClose
    \/ DecompressStepFails

Spec == Init /\ [][Next]_vars

-----------------------------------------------------------------------------
(* The registry and the selection heuristic under every build *)

\* Strategies a caller passes: the three tags, the empty string and a variant in capitals.
StrategyInputs ==
    {Codes.fast, Codes.balanced, Codes.max_ratio, <<>>,
     [i \in DOMAIN Codes.fast |-> UpperChar(Codes.fast[i])]}

\* Names a caller looks up: each backend's name as spelled, capitalised and in
\* capitals, and strings that are no backend's name in any case.
NameInputs ==
    UNION {{Codes[n], Variant(Codes[n], {1}), Variant(Codes[n], DOMAIN Codes[n])} : n \in AlgoSet}
    \cup {Codes.gzip, <<>>, SubSeq(Codes.zlib, 1, 3), Codes.lz4 \o <<32>>}

IdInputs == 0..7

InitRegistry ==
    /\ build \in SUBSET AlgoSet
    /\ _cap_list = None
    /\ _cap_by_name = None
    /\ _cap_by_id = None
    /\ ret = NoRet
    /\ file = NoFile
    /\ insp = NoInsp
    /\ PipelineIdle
    /\ ExtIdle

NextRegistry ==
    \/ list_capabilities
    \/ \E name \in NameInputs : get_by_name(name)
    \/ \E cid \in IdInputs : get_by_id(cid)
    \/ \E strategy \in StrategyInputs : _choose_backend_for_strategy(strategy)

SpecRegistry == InitRegistry /\ [][NextRegistry]_vars

-----------------------------------------------------------------------------
(* Inspection of the files a caller may point it at *)

AlgoIdInputs == {1, 2, 3, 4, 5, 6, 9, 255}
LevelInputs == {None} \cup {Some(l) : l \in 0..9}
OrigSizeInputs == {0, 12, 70000}
PayloadInputs == {<<>>, <<120, 1>>}
InspectBuilds == {AlgoSet, AlgoSet \ {"lz4"}, {}}

\* A writer creates a container at the path: the header of write_header, then the payload.
WriteContainerFile(algo_id, level, orig_size, payload) ==
    /\ file.kind = "missing"
    /\ file' = [kind |-> "file",
                data |-> write_header(algo_id, level, orig_size) \o payload,
                hdr |-> Some([algo_id |-> algo_id, level |-> level, orig_size |-> orig_size])]
    /\ insp' = NoInsp
    /\ UNCHANGED <<regVars, pipeVars, extVars>>

\* The file is cut to its first n bytes.
TruncateFile(n) ==
    /\ file.kind = "file"
    /\ n < Len(file.data)
    /\ file' = [file EXCEPT !.data = SubSeq(file.data, 1, n), !.hdr = None]
    /\ insp' = NoInsp
    /\ UNCHANGED <<regVars, pipeVars, extVars>>

\* The byte at a 0-based offset is overwritten.
OverwriteByte(offset, b) ==
    /\ file.kind = "file"
    /\ offset < Len(file.data)
    /\ file.data[offset + 1] # b
    /\ file' = [file EXCEPT !.data[offset + 1] = b, !.hdr = None]
    /\ insp' = NoInsp
    /\ UNCHANGED <<regVars, pipeVars, extVars>>

\* The file loses its read permission.
MakeUnreadable ==
    /\ file.kind = "file"
    /\ file' = [file EXCEPT !.kind = "unreadable", !.hdr = None]
    /\ insp' = NoInsp
    /\ UNCHANGED <<regVars, pipeVars, extVars>>

InitInspect ==
    /\ build \in InspectBuilds
    /\ _cap_list = None
    /\ _cap_by_name = None
    /\ _cap_by_id = None
    /\ ret = NoRet
    /\ file = NoFile
    /\ insp = NoInsp
    /\ PipelineIdle
    /\ ExtIdle

NextInspect ==
    \/ \E a \in AlgoIdInputs, l \in LevelInputs, o \in OrigSizeInputs, p \in PayloadInputs :
          WriteContainerFile(a, l, o, p)
    \/ \E n \in {0, 4, 14} : TruncateFile(n)
    \/ OverwriteByte(0, 88)
    \/ OverwriteByte(4, 2)
    \/ MakeUnreadable
    \/ inspect

SpecInspect == InitInspect /\ [][NextInspect]_vars

-----------------------------------------------------------------------------
(* Claims about inspect *)

InspectCalled == insp.raised # "not called"

\* The file is one the format rejects: not a readable file, shorter than the
\* header, wrong magic or wrong version.
C5_BadFile ==
    \/ file.kind # "file"
    \/ Len(file.data) < COMP_HEADER_STRUCT_size
    \/ SubSeq(file.data, 1, 4) # MagicCOMP
    \/ file.data[5] # 1

\* C5: inspect(path) never raises, whatever the path holds; it returns an
\* InspectResult, and for a bad file the result has is_compresso = false or
\* header_ok = false together with a reason.
C5_InspectNeverRaises ==
    InspectCalled =>
        /\ insp.raised = "none"
        /\ C5_BadFile => (~insp.is_compresso \/ ~insp.header_ok) /\ ~IsNone(insp.reason)

\* C6: a header written with (algo_id, level, orig_size) is read back by inspect
\* with version 1, the same algo_id, flags 0 and the same orig_size, and with the
\* level as written (unspecified for the byte 0xFF).
C6_HeaderRoundTrip ==
    InspectCalled /\ ~IsNone(file.hdr) =>
        /\ insp.raised = "none"
        /\ insp.version = Some(1)
        /\ insp.algo_id = Some(Val(file.hdr).algo_id)
        /\ insp.level = Val(file.hdr).level
        /\ insp.flags = Some(0)
        /\ insp.orig_size = Some(Val(file.hdr).orig_size)

\* C7: for a container (magic COMP, version 1) whose algo_id is not in the
\* registry, inspect returns header_ok with algo_name None and
\* backend_available, has_streaming and can_decompress false; for an algo_id in
\* the registry it returns the backend's name with backend_available and
\* can_decompress true.
C7_BackendAbsenceInFields ==
    InspectCalled /\ ~IsNone(file.hdr) =>
        LET id == Val(file.hdr).algo_id
            known == {n \in build : BackendId[n] = id}
        IN  /\ insp.raised = "none"
            /\ insp.header_ok
            /\ insp.algo_id = Some(id)
            /\ IF known = {}
               THEN /\ IsNone(insp.algo_name)
                    /\ ~insp.backend_available
                    /\ ~insp.has_streaming
                    /\ ~insp.can_decompress
               ELSE /\ insp.algo_name = Some(CHOOSE n \in known : TRUE)
                    /\ insp.backend_available
                    /\ insp.can_decompress

\* The invariants of one InspectResult r, whatever file it was made from.
C19_Fields(r) ==
    /\ r.header_ok => r.is_compresso
    /\ r.can_decompress = r.backend_available
    /\ r.can_decompress => r.header_ok
    /\ ~r.header_ok =>
          /\ IsNone(r.algo_id) /\ IsNone(r.algo_name) /\ IsNone(r.level)
          /\ IsNone(r.flags) /\ IsNone(r.orig_size) /\ IsNone(r.estimated_decomp_s)
          /\ ~IsNone(r.reason)
    /\ ~IsNone(r.estimated_decomp_s) =>
          r.can_decompress /\ ~IsNone(r.orig_size) /\ Val(r.orig_size) > 0

\* The file starts with the magic COMP.
C19_MagicOk == file.kind = "file" /\ Len(file.data) >= 4 /\ SubSeq(file.data, 1, 4) = MagicCOMP

\* What inspect.py:174-207 returns for the header fields of a version 1 container,
\* under the registry of the build.
C19_ParsedResults ==
    LET by_id == _load_capabilities(build).by_id
    IN  { r \in { InspectParsed(1, a, l, 0, o, DictGet(by_id, a)) :
                     a \in AlgoIdInputs, l \in {0, 9, 255}, o \in OrigSizeInputs } :
            r.raised = "none" }

\* C19: every InspectResult returned by inspect has header_ok only with
\* is_compresso, can_decompress equal to backend_available and only with
\* header_ok; with header_ok false its algo_id, algo_name, level, flags,
\* orig_size and estimated_decomp_s are None and its reason is set, and its
\* version is set only for a file with the magic and another version; its
\* estimated_decomp_s is set only with can_decompress and orig_size > 0; and
\* header_ok is true only for a file with magic COMP and version 1.
C19_ResultInvariants ==
    /\ InspectCalled /\ insp.raised = "none" =>
          /\ C19_Fields(insp)
          /\ ~insp.header_ok /\ ~IsNone(insp.version) =>
                C19_MagicOk /\ Len(file.data) >= 5 /\ insp.version = Some(file.data[5])
                            /\ file.data[5] # 1
          /\ insp.header_ok =>
                C19_MagicOk /\ Len(file.data) >= 5 /\ file.data[5] = 1
                            /\ insp.version = Some(1)
    /\ \A r \in C19_ParsedResults : C19_Fields(r) /\ r.header_ok /\ r.version = Some(1)

\* inspect has returned a result with header_ok false: its reason is set and
\* the header fields are None.
C19_Witness ==
    /\ InspectCalled
    /\ insp.raised = "none"
    /\ file.kind = "file"
    /\ ~insp.header_ok
    /\ ~IsNone(insp.reason)
    /\ IsNone(insp.version)

-----------------------------------------------------------------------------
(* Claims about the registry and the selection heuristic *)

\* The preference orders of the three strategies.
C8_Preference(strategy) ==
    IF strategy = Codes.fast THEN <<"lz4", "snappy", "zstd", "zlib", "bzip2", "lzma">>
    ELSE IF strategy = Codes.balanced THEN <<"zstd", "zlib", "bzip2", "lzma", "lz4", "snappy">>
    ELSE <<"bzip2", "lzma", "zstd", "zlib", "lz4", "snappy">>

\* The member of S that comes first in pref after position p, if any.
C8_FirstAfter(pref, S, p) ==
    LET idx == {i \in DOMAIN pref : i > p /\ pref[i] \in S}
    IN  IF idx = {} THEN None
        ELSE Some(pref[CHOOSE i \in idx : \A j \in idx : i <= j])

C8_Position(pref, n) == CHOOSE i \in DOMAIN pref : pref[i] = n

\* C8: with no explicit algo, the backend chosen for a strategy is the first
\* member of the build in that strategy's preference list; nothing is chosen
\* exactly when the build has no backend; and without the top choice, the
\* choice is the next member of the build in the list.
C8_StrategySelection ==
    ret.op = "choose" /\ ret.str \in {Codes.fast, Codes.balanced, Codes.max_ratio} =>
        LET pref == C8_Preference(ret.str)
        IN  /\ ret.name = C8_FirstAfter(pref, build, 0)
            /\ IsNone(ret.name) <=> build = {}
            /\ ~IsNone(ret.name) =>
                  LET top == Val(ret.name)
                      rest == _load_capabilities(build \ {top}).caps
                  IN  ChooseFromCaps(ret.str, rest)
                         = C8_FirstAfter(pref, build, C8_Position(pref, top))

\* A build without lz4 asked for the fast strategy chose snappy.
C8_Witness ==
    /\ ret.op = "choose"
    /\ ret.str = Codes.fast
    /\ "lz4" \notin build
    /\ ret.name = Some("snappy")

\* C10: get_by_name matches case-insensitively: for every case variant of a
\* registered name it returns that backend's record, and for any other string
\* it returns nothing.
C10_CaseInsensitiveLookup ==
    ret.op = "get_by_name" =>
        LET hit == {n \in build : Lower(ret.str) = Codes[n]}
        IN  IF hit = {} THEN IsNone(ret.cap)
            ELSE LET n == CHOOSE m \in hit : TRUE
                 IN  ret.cap = Some([name |-> n, id |-> BackendId[n],
                                     has_buffer |-> TRUE, has_stream |-> TRUE])

-----------------------------------------------------------------------------
(* Claims about the pipeline *)

\* The orig_size field of a container: 8 little-endian bytes at offset 8.
OrigSizeField(data) == LEValue(SubSeq(data, 9, 16))

\* The call named a backend of the build and a level that is unspecified or in 0..9.
C1_Call ==
    /\ ~IsNone(args.algo)
    /\ \E n \in build : Val(args.algo) = Codes[n]
    /\ IsNone(args.level) \/ Val(args.level) \in 0..9

\* C1: for every available backend, every level in {unspecified, 0..9} and
\* every input X, compress_file leaves a container whose orig_size is the
\* length of X, and decompress_file on that container yields exactly X.
C1_RoundTrip ==
    C1_Call /\ ~env.failed /\ env.tamper = "none" =>
        /\ pc = "c_done" =>
              /\ cres = "ok"
              /\ ~IsNone(cfile)
              /\ OrigSizeField(Val(cfile)) = Len(src)
        /\ pc = "d_done" /\ IsNone(args.dalgo) =>
              /\ dres = "ok"
              /\ ofile = Some(src)

\* A source longer than one chunk went through snappy at level 9 and came back.
C1_Witness ==
    /\ pc = "d_done"
    /\ dres = "ok"
    /\ args.algo = Some(Codes.snappy)
    /\ args.level = Some(9)
    /\ IsNone(args.dalgo)
    /\ Len(src) > ChunkSize
    /\ ofile = Some(src)

\* C2: decompress_file succeeds only if the number of decoded bytes equals the
\* header's orig_size; a container whose payload lost its last byte, gained a
\* byte, or whose orig_size differs from what the payload decodes to, makes it
\* fail with BackendError, and dest does not exist afterwards.
C2_SizeVerification ==
    pc = "d_done" =>
        /\ dres = "ok" =>
              /\ job.counter = OrigSizeField(Val(cfile))
              /\ Len(Val(ofile)) = OrigSizeField(Val(cfile))
        /\ env.tamper \in {"truncate", "pad", "size"} =>
              /\ dres = "BackendError"
              /\ IsNone(ofile)

\* A container padded by one byte was refused with BackendError.
C2_Witness ==
    /\ pc = "d_done"
    /\ env.tamper = "pad"
    /\ dres = "BackendError"
    /\ IsNone(ofile)

Errors == {"Error", "HeaderError", "BackendError"}

\* The frames of the chunks of x from position pos on, then the end marker.
RECURSIVE C3_Payload(_, _, _)
C3_Payload(x, pos, id) ==
    IF pos >= Len(x) THEN <<0>>
    ELSE LET n == IF Len(x) - pos < ChunkSize THEN Len(x) - pos ELSE ChunkSize
         IN  <<n>> \o [i \in 1..n |-> (x[pos + i] + id) % 256] \o C3_Payload(x, pos + n, id)

C3_State ==
    /\ cres \in Errors =>
          /\ IsNone(cfile)
          /\ opened = {}
          /\ pc = "c_done"
    /\ dres \in Errors =>
          /\ IsNone(ofile)
          /\ opened = {}
          /\ pc = "d_done"
    /\ cres = "ok" /\ pc = "c_done" /\ env.tamper = "none" =>
          /\ ~IsNone(cfile)
          /\ opened = {}
          /\ LET id == BackendId[Val(job.backend)]
             IN  Val(cfile) = write_header(id, job.level, Len(src)) \o C3_Payload(src, 0, id)
    /\ dres = "ok" =>
          /\ ~IsNone(ofile)
          /\ opened = {}
          /\ Len(Val(ofile)) = OrigSizeField(Val(cfile))
    /\ pc = "d_done" /\ env.tamper = "magic" =>
          /\ dres = "HeaderError"
          /\ IsNone(ofile)
    /\ pc = "d_done" /\ env.tamper \in {"cut", "version"} => dres = "HeaderError"
    /\ pc = "d_done" /\ env.tamper = "algo_id" => dres = "BackendError"

\* Once a call has ended with an error, no pipeline step runs: the error, the
\* files and the step history stay as they are.
C3_Step ==
    /\ cres \in Errors => UNCHANGED <<cres, cfile, ofile, opened, log, pc>>
    /\ dres \in Errors => UNCHANGED <<dres, cfile, ofile, opened, log, pc>>

\* C3: when compress_file or decompress_file ends with an error, that first
\* error is the one surfaced, no later pipeline step runs and the destination
\* is unlinked; when the call returns successfully, dest is fully written
\* (header plus whole payload) and closed; a source whose first four bytes are
\* not COMP makes decompress_file fail with HeaderError and leaves no dest.
C3_ErrorPropagation == []C3_State /\ [][C3_Step]_vars

\* A container whose magic was overwritten was refused with HeaderError, with no dest.
C3_Witness ==
    /\ pc = "d_done"
    /\ env.tamper = "magic"
    /\ dres = "HeaderError"
    /\ IsNone(ofile)
    /\ log = <<"unlink">>

\* The steps compress_file takes on a source of n bytes, in order.
C4_Steps(n) ==
    <<"open", "select", "header">>
    \o [i \in 1..((n + ChunkSize - 1) \div ChunkSize) |-> "chunk"]
    \o <<"finish", "rewrite", "close">>

C4_IsPrefix(a, b) == Len(a) <= Len(b) /\ a = SubSeq(b, 1, Len(a))

C4_InCompress == pc \in {"c_open", "c_select", "c_header", "c_loop", "c_finish", "c_rewrite", "c_close"}

\* C4: within one compress_file call the provisional header with orig_size 0
\* is written first, then every chunk is encoded and written in file order,
\* then the encoder is finished, and only then is the header rewritten with
\* the count of input bytes; until that rewrite the header on disk holds
\* orig_size 0 and the chosen algo_id and level.
C4_ProvisionalHeader ==
    /\ C4_InCompress => C4_IsPrefix(log, C4_Steps(Len(src)))
    /\ pc = "c_done" /\ cres = "ok" => log = C4_Steps(Len(src))
    /\ pc \in {"c_loop", "c_finish", "c_rewrite"} =>
          LET data == Val(cfile)
              id == BackendId[Val(job.backend)]
          IN  /\ SubSeq(data, 1, HeaderLen) = write_header(id, job.level, 0)
              /\ OrigSizeField(data) = 0
              /\ (~IsNone(args.level) /\ Val(args.level) \in 0..9) => data[7] = Val(args.level)
              /\ IsNone(args.level) => data[7] = 255
              /\ job.counter = job.rpos
              /\ LET full == C3_Payload(src, 0, id)
                     written == SubSeq(data, HeaderLen + 1, Len(data))
                 IN  IF pc = "c_rewrite" THEN written = full
                     ELSE /\ written = SubSeq(full, 1, Len(written))
                          /\ Len(written) < Len(full)
              /\ pc \in {"c_finish", "c_rewrite"} => job.counter = Len(src)
    /\ pc = "c_close" => OrigSizeField(Val(cfile)) = job.counter /\ job.counter = Len(src)

\* The whole payload of a source longer than one chunk is on disk and the
\* header still holds orig_size 0.
C4_Witness ==
    /\ pc = "c_rewrite"
    /\ Len(src) > ChunkSize
    /\ OrigSizeField(Val(cfile)) = 0
    /\ log = <<"open", "select", "header", "chunk", "chunk", "finish">>

\* C9: compress_file called with an integer level outside [0, 9], negative
\* values included, ends with Error before any file is opened or written; an
\* explicit out-of-range level is never taken for "unspecified".
C9_LevelOutOfRange ==
    pc # "idle" /\ ~IsNone(args.level) /\ Val(args.level) \notin 0..9 =>
        /\ cres = "Error"
        /\ log = <<>>
        /\ IsNone(cfile)

-----------------------------------------------------------------------------
(* A caller that changes the list it was given *)

\* list_capabilities returns _cap_list itself, not a copy, so the list in the
\* caller's hands and the module global are one object: list.append, list.pop
\* and list.reverse on the one act on the other.  The entries themselves are
\* frozen dataclasses.
ForeignCap == [name |-> "gzip", id |-> 7, has_buffer |-> TRUE, has_stream |-> TRUE]

Reverse(s) == [i \in DOMAIN s |-> s[Len(s) + 1 - i]]

ListMutations == {"append", "pop", "reverse"}

CallerMutatesList(m) ==
    /\ ret.op = "list_capabilities"
    /\ LET l == Val(_cap_list)
           changed == CASE m = "append"  -> Append(l, ForeignCap)
                        [] m = "pop"     -> SubSeq(l, 1, Len(l) - 1)
                        [] m = "reverse" -> Reverse(l)
       IN  /\ m = "append" => \A i \in DOMAIN l : l[i] # ForeignCap
           /\ m = "pop" => Len(l) > 0
           /\ changed # l
           /\ _cap_list' = Some(changed)
           /\ ret' = [NoRet EXCEPT !.op = "caller", !.list = changed]
    /\ UNCHANGED <<build, _cap_by_name, _cap_by_id, inspVars, pipeVars, extVars>>

SnapshotBuilds == {AlgoSet, {"zlib", "zstd", "lz4"}, {"zlib"}, {}}

InitSnapshot ==
    /\ InitRegistry
    /\ build \in SnapshotBuilds

NextSnapshot ==
    \/ list_capabilities
    \/ \E name \in NameInputs : get_by_name(name)
    \/ \E cid \in IdInputs : get_by_id(cid)
    \/ \E m \in ListMutations : CallerMutatesList(m)

SpecSnapshot == InitSnapshot /\ [][NextSnapshot]_vars

\* What the first load of this build puts in the registry.
FirstLoad == _load_capabilities(build)

\* C11: once loaded the registry never changes: every list_capabilities call
\* returns the entries of the first load in their order, and get_by_name and
\* get_by_id answer from the first load, whatever a caller did to a list it
\* was returned.
C11_RegistryImmutable ==
    /\ ret.op = "list_capabilities" => ret.list = FirstLoad.caps
    /\ ret.op = "get_by_name" => ret.cap = DictGetByStr(FirstLoad.by_name, ret.str)
    /\ ret.op = "get_by_id" => ret.cap = DictGet(FirstLoad.by_id, ret.id)

-----------------------------------------------------------------------------
(* Threads whose first registry calls overlap *)

\* The interpreter switches threads between statements; nothing in
\* capabilities.py takes a lock.  A thread inside a registry call is at one of:
\*   "check"   the `if _cap_X is None` test of its function
\*   "loop"    inside _load_capabilities, before the next item of raw
\*   "set_list", "set_by_name", "set_by_id"   the three assignments to the globals
\*   "return"  the return statement of its function
NumThreads == 2

Threads == 1..NumThreads

IdleThread ==
    [pc |-> "idle", op |-> "none", str |-> <<>>, id |-> 0,
     raw |-> <<>>, i |-> 0, caps |-> <<>>, by_name |-> EmptyDict, by_id |-> EmptyDict,
     raised |-> "none", list |-> <<>>, cap |-> None]

\* every function tests _cap_list
GuardOf_listOnly(op) == _cap_list

\* The global each function tests before it loads.
GuardOf(op) ==
    CASE op = "list_capabilities" -> _cap_list
      [] op = "get_by_name"       -> _cap_by_name
      [] op = "get_by_id"         -> _cap_by_id

ThreadUnchanged == UNCHANGED <<build, ret, inspVars, pipeVars, _SPEEDS_FILE, speed, plan, run>>

\* A thread enters list_capabilities(), get_by_name(name) or get_by_id(cid).
ThreadCall(t, op, name, cid) ==
    /\ threads[t].pc = "idle"
    /\ threads' = [threads EXCEPT ![t] =
                     [IdleThread EXCEPT !.pc = "check", !.op = op, !.str = name, !.id = cid]]
    /\ UNCHANGED <<_cap_list, _cap_by_name, _cap_by_id>>
    /\ ThreadUnchanged

\* if _cap_X is None: _load_capabilities()  -- up to raw = _core.get_capabilities()
ThreadCheck(t) ==
    /\ threads[t].pc = "check"
    /\ threads' = [threads EXCEPT ![t] =
                     IF IsNone(GuardOf(threads[t].op))
                     THEN [@ EXCEPT !.pc = "loop", !.raw = get_capabilities(build), !.i = 1]
                     ELSE [@ EXCEPT !.pc = "return"]]
    /\ UNCHANGED <<_cap_list, _cap_by_name, _cap_by_id>>
    /\ ThreadUnchanged

\* for item in raw: ... caps.append(cap); by_name[name] = cap; by_id[cid] = cap
ThreadLoop(t) ==
    /\ threads[t].pc = "loop"
    /\ LET th == threads[t]
       IN  threads' = [threads EXCEPT ![t] =
                         IF th.i > Len(th.raw)
                         THEN [@ EXCEPT !.pc = "set_list"]
                         ELSE LET cap == BackendCapabilities(th.raw[th.i])
                              IN  [@ EXCEPT !.i = th.i + 1,
                                            !.caps = Append(th.caps, cap),
                                            !.by_name = DictPut(th.by_name, cap.name, cap),
                                            !.by_id = DictPut(th.by_id, cap.id, cap)]]
    /\ UNCHANGED <<_cap_list, _cap_by_name, _cap_by_id>>
    /\ ThreadUnchanged

\* _cap_list = caps
ThreadSetList(t) ==
    /\ threads[t].pc = "set_list"
    /\ _cap_list' = Some(threads[t].caps)
    /\ threads' = [threads EXCEPT ![t].pc = "set_by_name"]
    /\ UNCHANGED <<_cap_by_name, _cap_by_id>>
    /\ ThreadUnchanged

\* _cap_by_name = by_name
ThreadSetByName(t) ==
    /\ threads[t].pc = "set_by_name"
    /\ _cap_by_name' = Some(threads[t].by_name)
    /\ threads' = [threads EXCEPT ![t].pc = "set_by_id"]
    /\ UNCHANGED <<_cap_list, _cap_by_id>>
    /\ ThreadUnchanged

\* _cap_by_id = by_id
ThreadSetById(t) ==
    /\ threads[t].pc = "set_by_id"
    /\ _cap_by_id' = Some(threads[t].by_id)
    /\ threads' = [threads EXCEPT ![t].pc = "return"]
    /\ UNCHANGED <<_cap_list, _cap_by_name>>
    /\ ThreadUnchanged

\* return _cap_list / return _cap_by_name.get(name) / return _cap_by_id.get(cid):
\* the global is read again here, and .get on None raises AttributeError.
ThreadReturn(t) ==
    /\ threads[t].pc = "return"
    /\ LET th == threads[t]
       IN  threads' = [threads EXCEPT ![t] =
             CASE th.op = "list_capabilities" ->
                    IF IsNone(_cap_list)
                    THEN [@ EXCEPT !.pc = "done", !.raised = "returned None"]
                    ELSE [@ EXCEPT !.pc = "done", !.list = Val(_cap_list)]
               [] th.op = "get_by_name" ->
                    IF IsNone(_cap_by_name)
                    THEN [@ EXCEPT !.pc = "done", !.raised = "AttributeError"]
                    ELSE [@ EXCEPT !.pc = "done", !.cap = DictGetByStr(Val(_cap_by_name), th.str)]
               [] th.op = "get_by_id" ->
                    IF IsNone(_cap_by_id)
                    THEN [@ EXCEPT !.pc = "done", !.raised = "AttributeError"]
                    ELSE [@ EXCEPT !.pc = "done", !.cap = DictGet(Val(_cap_by_id), th.id)]]
    /\ UNCHANGED <<_cap_list, _cap_by_name, _cap_by_id>>
    /\ ThreadUnchanged

ThreadBuilds == {{"zlib", "zstd"}, {"zlib"}, {}}
ThreadNames == {Codes.zlib, Codes.lz4}
ThreadIds == {1, 9}

InitThreads ==
    /\ build \in ThreadBuilds
    /\ _cap_list = None
    /\ _cap_by_name = None
    /\ _cap_by_id = None
    /\ ret = NoRet
    /\ file = NoFile
    /\ insp = NoInsp
    /\ PipelineIdle
    /\ threads = [t \in Threads |-> IdleThread]
    /\ _SPEEDS_FILE = NoSpeedsFile
    /\ speed = NoSpeed
    /\ plan = NoPlan
    /\ run = NoRun

NextThreads ==
    \E t \in Threads :
        \/ ThreadCall(t, "list_capabilities", <<>>, 0)
        \/ \E name \in ThreadNames : ThreadCall(t, "get_by_name", name, 0)
        \/ \E cid \in ThreadIds : ThreadCall(t, "get_by_id", <<>>, cid)
        \/ ThreadCheck(t)
        \/ ThreadLoop(t)
        \/ ThreadSetList(t)
        \/ ThreadSetByName(t)
        \/ ThreadSetById(t)
        \/ ThreadReturn(t)

SpecThreads == InitThreads /\ [][NextThreads]_vars

\* The backends a list, a by-name map and a by-id map describe.
ListNames(l) == {l[i].name : i \in DOMAIN l}
MapNames(d) == {d[k].name : k \in DOMAIN d}

C12_Answered(th) ==
    /\ th.raised = "none"
    /\ th.op = "list_capabilities" => th.list = FirstLoad.caps
    /\ th.op = "get_by_name" => th.cap = DictGetByStr(FirstLoad.by_name, th.str)
    /\ th.op = "get_by_id" => th.cap = DictGet(FirstLoad.by_id, th.id)

\* C12: under every interleaving of threads whose first registry calls
\* overlap, every call returns the answer of a fully built registry (no call
\* raises or returns None in place of the list, and no global ever holds a
\* partially filled list or map), and once every thread has returned the
\* three indexes describe the same set of backends.
C12_ConcurrentFirstUse ==
    /\ \A t \in Threads : threads[t].pc = "done" => C12_Answered(threads[t])
    /\ ~IsNone(_cap_list) => Val(_cap_list) = FirstLoad.caps
    /\ ~IsNone(_cap_by_name) => Val(_cap_by_name) = FirstLoad.by_name
    /\ ~IsNone(_cap_by_id) => Val(_cap_by_id) = FirstLoad.by_id
    /\ (\A t \in Threads : threads[t].pc = "done") =>
          /\ ~IsNone(_cap_list) /\ ~IsNone(_cap_by_name) /\ ~IsNone(_cap_by_id)
          /\ ListNames(Val(_cap_list)) = build
          /\ MapNames(Val(_cap_by_name)) = build
          /\ MapNames(Val(_cap_by_id)) = build

\* The threads called different functions, each found its global None and ran
\* _load_capabilities on a build with backends, and every call has returned.
C12_Witness ==
    /\ \A t \in Threads : threads[t].pc = "done" /\ threads[t].i > Len(threads[t].raw)
    /\ \E t, u \in Threads : t # u /\ threads[t].op # threads[u].op
    /\ build # {}

-----------------------------------------------------------------------------
(* backend/speeds.py *)

\* A float is modelled as the exact fraction n/d in lowest terms, d > 0.
RECURSIVE GCD(_, _)
GCD(a, b) == IF b = 0 THEN a ELSE GCD(b, a % b)

Abs(x) == IF x < 0 THEN -x ELSE x

Rat(n, d) ==
    LET g == GCD(Abs(n), Abs(d))
        sgn == IF d < 0 THEN -1 ELSE 1
    IN  [n |-> sgn * (n \div g), d |-> sgn * (d \div g)]

Float(i) == [n |-> i, d |-> 1]
RatAdd(x, y) == Rat(x.n * y.d + y.n * x.d, x.d * y.d)
RatMul(x, y) == Rat(x.n * y.n, x.d * y.d)
RatDiv(x, y) == Rat(x.n * y.d, x.d * y.n)
RatPositive(x) == x.n > 0

\* int(x): truncation toward zero
IntOf(x) == IF x.n >= 0 THEN x.n \div x.d ELSE -((-x.n) \div x.d)

_DEFAULT_COMP_MB_S ==
    [ zlib |-> 200, bzip2 |-> 50, lzma |-> 30, zstd |-> 400, lz4 |-> 800, snappy |-> 600 ]

_DEFAULT_DECOMP_MB_S ==
    [ zlib |-> 250, bzip2 |-> 60, lzma |-> 40, zstd |-> 500, lz4 |-> 900, snappy |-> 700 ]

\* The file speeds.json is missing, unreadable, or holds a text.  A text is
\* modelled by what json.loads makes of it:
\*   t = "bad_utf8"  bytes that are not UTF-8 (read_text raises UnicodeDecodeError)
\*   t = "invalid"   not JSON (json.loads raises JSONDecodeError)
\*   t = "object"    a JSON object; obj maps each key (a str) to its value
\*   t = "array", "number", "string", "null"   any other JSON value
\* The value under a key is an entry: a JSON object (t = "object") with the
\* members comp_mb_s, decomp_mb_s and samples, or any other JSON value.  A
\* member is a number, a string that is no number, null, or absent.
JNum(n, d) == [t |-> "number", num |-> Rat(n, d)]
JStr == [t |-> "string", num |-> Float(0)]
JNull == [t |-> "null", num |-> Float(0)]
JAbsent == [t |-> "absent", num |-> Float(0)]

JEntry(comp, decomp, samples) ==
    [t |-> "object", comp_mb_s |-> comp, decomp_mb_s |-> decomp, samples |-> samples]
JNotObject(t) ==
    [t |-> t, comp_mb_s |-> JAbsent, decomp_mb_s |-> JAbsent, samples |-> JAbsent]

JObject(obj) == [t |-> "object", obj |-> obj]
JOther(t) == [t |-> t, obj |-> EmptyDict]

TextFile(data) == [kind |-> "text", data |-> data]

\* float(entry.get(key, 0.0)) and int(entry.get("samples", 0)): a string that
\* is no number raises ValueError, null raises TypeError.
ConvertRaises(member) == member.t \in {"string", "null"}
FloatOfMember(member) == IF member.t = "absent" THEN Float(0) ELSE member.num
IntOfMember(member) == IF member.t = "absent" THEN 0 ELSE IntOf(member.num)

AlgoSpeeds(algo, comp_mb_s, decomp_mb_s, samples) ==
    [algo |-> algo, comp_mb_s |-> comp_mb_s, decomp_mb_s |-> decomp_mb_s, samples |-> samples]

\* _load_raw(): the dict it returns, or the exception that leaves it.
_load_raw(f) ==
    IF f.kind = "missing" THEN [raised |-> "none", db |-> EmptyDict]
    ELSE IF f.kind = "unreadable" THEN [raised |-> "none", db |-> EmptyDict]
    ELSE IF f.data.t = "bad_utf8" THEN [raised |-> "UnicodeDecodeError", db |-> EmptyDict]
    ELSE IF f.data.t = "invalid" THEN [raised |-> "none", db |-> EmptyDict]
    ELSE IF f.data.t # "object" THEN [raised |-> "AttributeError", db |-> EmptyDict]
    ELSE LET obj == f.data.obj
             kept == {k \in DOMAIN obj :
                        /\ ~ConvertRaises(obj[k].comp_mb_s)
                        /\ ~ConvertRaises(obj[k].decomp_mb_s)
                        /\ ~ConvertRaises(obj[k].samples)}
         IN  IF \E k \in DOMAIN obj : obj[k].t # "object"
             THEN [raised |-> "AttributeError", db |-> EmptyDict]
             ELSE [raised |-> "none",
                   db |-> [k \in kept |->
                             AlgoSpeeds(k, FloatOfMember(obj[k].comp_mb_s),
                                        FloatOfMember(obj[k].decomp_mb_s),
                                        IntOfMember(obj[k].samples))]]

\* table.get(algo, 200.0) for a table keyed by the backends' names
DefaultGet(table, algo) ==
    IF \E k \in DOMAIN table : Codes[k] = algo
    THEN Float(table[CHOOSE k \in DOMAIN table : Codes[k] = algo])
    ELSE Float(200)

\* get_estimated_speeds after db = _load_raw(), algo already lowercased
SpeedFrom(db, algo, operation) ==
    IF algo \in DOMAIN db /\ operation = "compress" /\ RatPositive(db[algo].comp_mb_s)
    THEN db[algo].comp_mb_s
    ELSE IF algo \in DOMAIN db /\ operation # "compress" /\ RatPositive(db[algo].decomp_mb_s)
    THEN db[algo].decomp_mb_s
    ELSE IF operation = "compress"
    THEN DefaultGet(_DEFAULT_COMP_MB_S, algo)
    ELSE DefaultGet(_DEFAULT_DECOMP_MB_S, algo)

SpeedsUnchanged == UNCHANGED <<regVars, inspVars, pipeVars, threads, plan, run>>

\* get_estimated_speeds(algo, operation=operation)
get_estimated_speeds(algo, operation) ==
    LET r == _load_raw(_SPEEDS_FILE)
    IN  /\ speed' = [NoSpeed EXCEPT
                       !.op = "get_estimated_speeds", !.algo = algo, !.operation = operation,
                       !.raised = r.raised,
                       !.value = IF r.raised = "none"
                                 THEN SpeedFrom(r.db, Lower(algo), operation)
                                 ELSE Float(0)]
        /\ UNCHANGED _SPEEDS_FILE
        /\ SpeedsUnchanged

\* A benchmark result object: each of the attributes algo, comp_mb_s and
\* decomp_mb_s is an Optional (None when the object has no such attribute).
BenchResult(algo, comp_mb_s, decomp_mb_s) ==
    [algo |-> algo, comp_mb_s |-> comp_mb_s, decomp_mb_s |-> decomp_mb_s]

\* float(getattr(result, name, None) or 0.0)
FloatOrZero(attr) == IF IsNone(attr) THEN Float(0) ELSE Val(attr)

\* The first loop of update_from_benchmarks, from result i on.
RECURSIVE AccumulateLoop(_, _, _)
AccumulateLoop(results, i, accumulated) ==
    IF i > Len(results) THEN accumulated
    ELSE LET result == results[i]
             comp == FloatOrZero(result.comp_mb_s)
             decomp == FloatOrZero(result.decomp_mb_s)
         IN  IF IsNone(result.algo) \/ Val(result.algo) = <<>>
             THEN AccumulateLoop(results, i + 1, accumulated)
             ELSE IF ~RatPositive(comp) \/ ~RatPositive(decomp)
             THEN AccumulateLoop(results, i + 1, accumulated)
             ELSE LET algo == Val(result.algo)
                      agg == IF algo \in DOMAIN accumulated THEN accumulated[algo]
                             ELSE [comp_sum |-> Float(0), decomp_sum |-> Float(0), count |-> 0]
                  IN  AccumulateLoop(results, i + 1,
                         DictPut(accumulated, algo,
                                 [comp_sum |-> RatAdd(agg.comp_sum, comp),
                                  decomp_sum |-> RatAdd(agg.decomp_sum, decomp),
                                  count |-> agg.count + 1]))

\* the new mean stored without regard to what the cache held
Combined_replacing(existing, algo, stats) ==
    AlgoSpeeds(algo, RatDiv(stats.comp_sum, Float(stats.count)),
               RatDiv(stats.decomp_sum, Float(stats.count)),
               IF algo \in DOMAIN existing /\ existing[algo].samples > 0
               THEN existing[algo].samples + stats.count ELSE stats.count)

\* The body of the second loop: the entry stored for algo.
Combined(existing, algo, stats) ==
    LET new_count == stats.count
        new_comp_avg == RatDiv(stats.comp_sum, Float(new_count))
        new_decomp_avg == RatDiv(stats.decomp_sum, Float(new_count))
    IN  IF algo \notin DOMAIN existing \/ existing[algo].samples <= 0
        THEN AlgoSpeeds(algo, new_comp_avg, new_decomp_avg, new_count)
        ELSE LET old == existing[algo]
                 total_samples == old.samples + new_count
             IN  AlgoSpeeds(algo,
                    RatDiv(RatAdd(RatMul(old.comp_mb_s, Float(old.samples)),
                                  RatMul(new_comp_avg, Float(new_count))),
                           Float(total_samples)),
                    RatDiv(RatAdd(RatMul(old.decomp_mb_s, Float(old.samples)),
                                  RatMul(new_decomp_avg, Float(new_count))),
                           Float(total_samples)),
                    total_samples)

\* _save_raw(entries): the text json.dumps writes, as json.loads reads it back.
_save_raw(entries) ==
    TextFile(JObject([algo \in DOMAIN entries |->
        JEntry([t |-> "number", num |-> entries[algo].comp_mb_s],
               [t |-> "number", num |-> entries[algo].decomp_mb_s],
               [t |-> "number", num |-> Float(entries[algo].samples)])]))

MaxSamples == 2

\* update_from_benchmarks(results)
update_from_benchmarks(results) ==
    LET r == _load_raw(_SPEEDS_FILE)
        accumulated == AccumulateLoop(results, 1, EmptyDict)
        existing == [algo \in DOMAIN r.db \cup DOMAIN accumulated |->
                        IF algo \in DOMAIN accumulated
                        THEN Combined(r.db, algo, accumulated[algo])
                        ELSE r.db[algo]]
    IN  /\ \A algo \in DOMAIN r.db : r.db[algo].samples <= MaxSamples
        /\ speed' = [NoSpeed EXCEPT
                       !.op = "update_from_benchmarks", !.results = results,
                       !.raised = IF r.raised # "none" THEN r.raised
                                  ELSE IF DOMAIN accumulated # {} /\ _SPEEDS_FILE.kind = "unreadable"
                                  THEN "PermissionError" ELSE "none"]
        /\ _SPEEDS_FILE' = IF speed'.raised = "none" /\ DOMAIN accumulated # {}
                           THEN _save_raw(existing)
                           ELSE _SPEEDS_FILE
        /\ SpeedsUnchanged

\* Cache files: missing, unreadable, damaged in each way, and well formed.
GoodEntry == JEntry(JNum(300, 1), JNum(500, 1), JNum(1, 1))

SpeedsFileInputs ==
    { [kind |-> "missing"], [kind |-> "unreadable"],
      TextFile(JOther("bad_utf8")), TextFile(JOther("invalid")),
      TextFile(JOther("array")), TextFile(JOther("null")),
      TextFile(JObject(EmptyDict)) }
    \cup { TextFile(JObject(DictPut(EmptyDict, Codes.zlib, e))) :
             e \in { JNotObject("number"), JNotObject("null"),
                     JEntry(JStr, JNum(500, 1), JNum(1, 1)),
                     JEntry(JNum(300, 1), JNull, JNum(1, 1)),
                     JEntry(JNum(300, 1), JNum(500, 1), JStr),
                     JEntry(JAbsent, JAbsent, JAbsent),
                     JEntry(JNum(0, 1), JNum(500, 1), JNum(1, 1)),
                     JEntry(JNum(300, 1), JNum(-5, 1), JNum(1, 1)),
                     JEntry(JNum(300, 1), JNum(500, 1), JNum(0, 1)),
                     JEntry(JNum(301, 2), JNum(500, 1), JNum(5, 2)),
                     GoodEntry } }
    \cup { TextFile(JObject(DictPut(EmptyDict, Codes.gzip, GoodEntry))),
           TextFile(JObject(DictPut(EmptyDict, Variant(Codes.zlib, {1}), GoodEntry))),
           TextFile(JObject(DictPut(DictPut(EmptyDict, Codes.lz4, GoodEntry),
                                    Codes.zlib, JNotObject("string")))) }

AlgoInputs ==
    {Codes.zlib, Variant(Codes.zlib, {1}), Codes.lz4, Codes.gzip, <<>>}

OperationInputs == {"compress", "decompress", "both"}

\* Batches of benchmark results: measurements of one algorithm and of two, a
\* result whose compress speed is zero, and a result without algo or decomp_mb_s.
ZlibSlow == BenchResult(Some(Codes.zlib), Some(Float(100)), Some(Float(200)))
ZlibFast == BenchResult(Some(Codes.zlib), Some(Float(400)), Some(Float(300)))
Lz4Run == BenchResult(Some(Codes.lz4), Some(Float(700)), Some(Float(900)))
ZlibZero == BenchResult(Some(Codes.zlib), Some(Float(0)), Some(Float(200)))
Unnamed == BenchResult(None, Some(Float(100)), None)

BatchInputs ==
    { <<>>, <<ZlibSlow>>, <<ZlibFast>>, <<ZlibSlow, ZlibFast>>, <<ZlibFast, Lz4Run, ZlibFast>>,
      <<Lz4Run>>, <<ZlibZero>>, <<ZlibSlow, ZlibZero>>, <<Unnamed>> }

InitSpeeds ==
    /\ build = AlgoSet
    /\ _cap_list = None
    /\ _cap_by_name = None
    /\ _cap_by_id = None
    /\ ret = NoRet
    /\ file = NoFile
    /\ insp = NoInsp
    /\ PipelineIdle
    /\ threads = NoThreads
    /\ _SPEEDS_FILE \in SpeedsFileInputs
    /\ speed = NoSpeed
    /\ plan = NoPlan
    /\ run = NoRun

NextSpeeds ==
    \/ \E algo \in AlgoInputs, operation \in OperationInputs :
          get_estimated_speeds(algo, operation)
    \/ \E results \in BatchInputs : update_from_benchmarks(results)

SpecSpeeds == InitSpeeds /\ [][NextSpeeds]_vars

\* The built-in default for an algorithm (as spelled by the caller) and operation.
BuiltInDefault(algo, operation) ==
    LET table == IF operation = "compress" THEN _DEFAULT_COMP_MB_S ELSE _DEFAULT_DECOMP_MB_S
    IN  IF \E k \in DOMAIN table : Codes[k] = Lower(algo)
        THEN Float(table[CHOOSE k \in DOMAIN table : Codes[k] = Lower(algo)])
        ELSE Float(200)

\* The cache file is missing, unreadable, not JSON, JSON but not an object, or
\* an object none of whose entries is an object with three numbers.
C13_Damaged(f) ==
    \/ f.kind # "text"
    \/ f.data.t # "object"
    \/ \A k \in DOMAIN f.data.obj :
          LET e == f.data.obj[k]
          IN  \/ e.t # "object"
              \/ \E m \in {e.comp_mb_s, e.decomp_mb_s, e.samples} : m.t \in {"string", "null"}

\* C13: get_estimated_speeds never raises because of the cache file: with a
\* missing, unreadable or damaged speeds.json it returns the built-in default
\* for the algorithm and operation.
C13_CacheFallback ==
    speed.op = "get_estimated_speeds" /\ C13_Damaged(_SPEEDS_FILE) =>
        /\ speed.raised = "none"
        /\ speed.value = BuiltInDefault(speed.algo, speed.operation)

-----------------------------------------------------------------------------
(* The decompression time estimate of inspect *)

\* The backend of the build that has the given id, if any.
NameOfId(algo_id) == {n \in build : BackendId[n] = algo_id}

\* C14: for a container with orig_size > 0 whose backend is in the build,
\* inspect's estimated_decomp_s is orig_size / (r * 1 MiB) with r the rate
\* get_estimated_speeds gives for the backend's name and operation decompress:
\* the cached decompression speed when positive, else the built-in default
\* decompression speed.
C14_EstimateFromSpeedCache ==
    InspectCalled /\ ~IsNone(file.hdr) =>
        LET hdr == Val(file.hdr)
        IN  NameOfId(hdr.algo_id) # {} /\ hdr.orig_size > 0 =>
              /\ insp.raised = "none"
              /\ LET name == CHOOSE n \in NameOfId(hdr.algo_id) : TRUE
                     r == SpeedFrom(_load_raw(_SPEEDS_FILE).db, Codes[name], "decompress")
                 IN  /\ r.d = 1
                     /\ insp.estimated_decomp_s =
                           Some([num |-> hdr.orig_size, den |-> r.n * MiB])

-----------------------------------------------------------------------------
(* The weighted running average of update_from_benchmarks *)

\* The cache as it stands in the file: for each key the triple in the file.
CacheEntries(f) ==
    IF f.kind # "text" THEN EmptyDict
    ELSE [k \in DOMAIN f.data.obj |->
            [comp |-> f.data.obj[k].comp_mb_s.num,
             decomp |-> f.data.obj[k].decomp_mb_s.num,
             n |-> f.data.obj[k].samples.num]]

\* The file is absent or is a cache as update_from_benchmarks leaves one: an
\* object whose entries are objects with two numbers and an integer count.
C15_Cache(f) ==
    \/ f.kind = "missing"
    \/ /\ f.kind = "text"
       /\ f.data.t = "object"
       /\ \A k \in DOMAIN f.data.obj :
             LET e == f.data.obj[k]
             IN  /\ e.t = "object"
                 /\ e.comp_mb_s.t = "number" /\ e.decomp_mb_s.t = "number"
                 /\ e.samples.t = "number" /\ e.samples.num.d = 1

RECURSIVE RatSum(_, _)
RatSum(S, f) ==
    IF S = {} THEN Float(0)
    ELSE LET x == CHOOSE y \in S : TRUE
         IN  RatAdd(f[x], RatSum(S \ {x}, f))

\* The results of a batch that count for algorithm a: those named a, and, when
\* onlyMeasured, with both speeds positive.
C15_Counted(results, a, onlyMeasured) ==
    {i \in DOMAIN results :
        /\ results[i].algo = Some(a)
        /\ onlyMeasured =>
              /\ RatPositive(FloatOrZero(results[i].comp_mb_s))
              /\ RatPositive(FloatOrZero(results[i].decomp_mb_s))}

C15_Named(results) ==
    {Val(results[i].algo) : i \in {j \in DOMAIN results : ~IsNone(results[j].algo)}}

\* One update step from a cache: every algorithm with k counted results of mean
\* new_avg ends with ((avg*n + new_avg*k)/(n+k), n+k) over a prior (avg, n),
\* n > 0, and with (new_avg, k) over no prior entry; every other entry is as
\* it was; no count goes down.
C15_Step(onlyMeasured) ==
    (speed'.op = "update_from_benchmarks" /\ speed'.raised = "none" /\ C15_Cache(_SPEEDS_FILE)) =>
        LET results == speed'.results
            old == CacheEntries(_SPEEDS_FILE)
            new == CacheEntries(_SPEEDS_FILE')
            algos == {a \in C15_Named(results) : C15_Counted(results, a, onlyMeasured) # {}}
        IN  /\ DOMAIN new = DOMAIN old \cup algos
            /\ \A a \in algos :
                  LET counted == C15_Counted(results, a, onlyMeasured)
                      k == Float(Cardinality(counted))
                      CompOf == [i \in DOMAIN results |-> FloatOrZero(results[i].comp_mb_s)]
                      DecompOf == [i \in DOMAIN results |-> FloatOrZero(results[i].decomp_mb_s)]
                      new_comp == RatDiv(RatSum(counted, CompOf), k)
                      new_decomp == RatDiv(RatSum(counted, DecompOf), k)
                  IN  /\ a \in DOMAIN new
                      /\ a \notin DOMAIN old =>
                            new[a] = [comp |-> new_comp, decomp |-> new_decomp, n |-> k]
                      /\ a \in DOMAIN old /\ RatPositive(old[a].n) =>
                            LET n == old[a].n
                            IN  new[a] =
                                  [comp |-> RatDiv(RatAdd(RatMul(old[a].comp, n), RatMul(new_comp, k)),
                                                   RatAdd(n, k)),
                                   decomp |-> RatDiv(RatAdd(RatMul(old[a].decomp, n), RatMul(new_decomp, k)),
                                                     RatAdd(n, k)),
                                   n |-> RatAdd(n, k)]
            /\ \A a \in DOMAIN old \ algos : new[a] = old[a]
            /\ \A a \in DOMAIN old : new[a].n.n >= old[a].n.n

\* C15: update_from_benchmarks applies sample-count-weighted averaging per
\* algorithm, where the k results that count for an algorithm are those whose
\* compress and decompress speeds are both positive; entries of algorithms
\* without such a result are unchanged and samples never decreases.
C15_WeightedAveraging == [][C15_Step(TRUE)]_vars

\* C15 as stated: every result of the batch for an algorithm counts toward k
\* and the mean.
C15_WeightedAveraging_everyResult == [][C15_Step(FALSE)]_vars

\* An update merged a batch of two zlib results into a prior zlib entry, giving
\* a count of three.
C15_Witness ==
    /\ speed.op = "update_from_benchmarks"
    /\ speed.results = <<ZlibSlow, ZlibFast>>
    /\ Codes.zlib \in DOMAIN CacheEntries(_SPEEDS_FILE)
    /\ CacheEntries(_SPEEDS_FILE)[Codes.zlib].n = Float(3)

-----------------------------------------------------------------------------
(* The lookup of get_estimated_speeds *)

\* The strictly positive speeds the cache file holds for an algorithm, in any
\* spelling of its name, and an operation; an entry counts when it is an
\* object whose members are numbers.
C20_Cached(f, algo, operation) ==
    LET entries == CacheEntries(f)
        OfEntry(k) == IF operation = "compress" THEN entries[k].comp ELSE entries[k].decomp
        Numeric(k) ==
            LET e == f.data.obj[k]
            IN  /\ e.t = "object"
                /\ \A m \in {e.comp_mb_s, e.decomp_mb_s, e.samples} : m.t \in {"number", "absent"}
    IN  {OfEntry(k) : k \in {x \in DOMAIN entries :
                                Lower(x) = Lower(algo) /\ Numeric(x) /\ RatPositive(OfEntry(x))}}

C20_State ==
    speed.op = "get_estimated_speeds" =>
        /\ speed.raised = "none"
        /\ IF C20_Cached(_SPEEDS_FILE, speed.algo, speed.operation) # {}
           THEN speed.value \in C20_Cached(_SPEEDS_FILE, speed.algo, speed.operation)
           ELSE speed.value = BuiltInDefault(speed.algo, speed.operation)

C20_ReadOnly == speed'.op = "get_estimated_speeds" => UNCHANGED _SPEEDS_FILE

\* C20: get_estimated_speeds(algo, operation) matches algo without regard to
\* case and returns the cached speed for the algorithm and operation when the
\* cache holds a strictly positive one; otherwise the built-in default of the
\* algorithm (the compress table for "compress", the decompress table for
\* anything else; 200 for an algorithm in neither).  The call never changes
\* the cache file.
C20_CachedOrDefault == []C20_State /\ [][C20_ReadOnly]_vars

-----------------------------------------------------------------------------
(* frontend/api.py: plans and jobs *)

MB == 1024 * 1024

\* CompressionOptions(algo, strategy, level)
CompressionOptions(algo, strategy, level) ==
    [algo |-> algo, strategy |-> strategy, level |-> level]

\* `if options.algo:`
Truthy(s) == ~IsNone(s) /\ Len(Val(s)) > 0

FrontUnchanged == UNCHANGED <<inspVars, pipeVars, threads, _SPEEDS_FILE, speed>>

\* plan_compression(src, dest, options); is_file is what src_path.is_file()
\* answers.  The registry is loaded when _choose_backend_for_strategy calls
\* list_capabilities, and get_estimated_speeds reads the cache file.
plan_compression(is_file, options) ==
    LET choose == is_file /\ ~Truthy(options.algo)
        g == Loaded(choose /\ IsNone(_cap_list))
        chosen == ChooseFromCaps(options.strategy, Val(g.list))
        backend_name == IF Truthy(options.algo) THEN Some(Lower(Val(options.algo)))
                        ELSE IF IsNone(chosen) THEN None ELSE Some(Codes[Val(chosen)])
        input_size == Len(src)
        r == _load_raw(_SPEEDS_FILE)
        mb_s == SpeedFrom(r.db, Lower(Val(backend_name)), "compress")
        base == [NoPlan EXCEPT !.kind = "compression", !.is_file = is_file, !.options = options]
    IN  /\ pc = "idle"
        /\ run.stage = "idle"
        /\ SetGlobals(g)
        /\ plan' =
             IF ~is_file
             THEN [base EXCEPT !.reason_if_unavailable =
                                  Some("Source file does not exist or is not a file")]
             ELSE IF IsNone(backend_name)
             THEN [base EXCEPT !.input_size = input_size,
                               !.reason_if_unavailable =
                                  Some("No suitable backend found for the selected strategy")]
             ELSE IF r.raised # "none"
             THEN [NoPlan EXCEPT !.kind = "raised", !.raised = r.raised]
             ELSE [base EXCEPT !.input_size = input_size,
                               !.backend_name = backend_name,
                               !.estimated_seconds =
                                  Some(IF input_size > 0
                                       THEN RatDiv(Rat(input_size, MB), mb_s) ELSE Float(0)),
                               !.can_compress = TRUE]
        /\ UNCHANGED <<build, ret, run>>
        /\ FrontUnchanged

\* The file at the path given to plan_decompression: the container, if any.
ContainerFile ==
    IF IsNone(cfile) THEN NoFile
    ELSE [kind |-> "file", data |-> Val(cfile), hdr |-> None]

\* plan_decompression(src, dest): inspect_file(src_path), whose exception, if
\* any, leaves plan_decompression.
plan_decompression ==
    LET f == ContainerFile
        g == Loaded(ReachesGetById(f) /\ IsNone(_cap_by_id))
        inspection == InspectFile(f, IF ReachesGetById(f) THEN Val(g.by_id) ELSE EmptyDict)
    IN  /\ pc \in {"idle", "c_done"}
        /\ run.stage \in {"idle", "done"}
        /\ SetGlobals(g)
        /\ plan' = IF inspection.raised # "none"
                   THEN [NoPlan EXCEPT !.kind = "raised", !.raised = inspection.raised]
                   ELSE [NoPlan EXCEPT !.kind = "decompression", !.inspection = inspection,
                                       !.estimated_seconds = inspection.estimated_decomp_s]
        /\ run' = NoRun
        /\ UNCHANGED <<build, ret>>
        /\ FrontUnchanged

\* DecompressionPlan(src, dest, inspection, estimated_seconds) built by the
\* caller around an InspectResult.
DecompressionPlan(inspection) ==
    /\ pc = "c_done"
    /\ cres = "ok"
    /\ run.stage \in {"idle", "done"}
    /\ plan' = [NoPlan EXCEPT !.kind = "decompression", !.inspection = inspection,
                              !.estimated_seconds = inspection.estimated_decomp_s]
    /\ run' = NoRun
    /\ UNCHANGED regVars
    /\ FrontUnchanged

\* A progress event: progress(fraction, done, total), fraction 0 or 1.
Progress(fraction, done, total) == [fraction |-> fraction, done |-> done, total |-> total]

JobResult(r, ok, error) == [r EXCEPT !.stage = "done", !.ok = ok, !.error = error]

\* the final progress event emitted whether or not the core call raised
AfterCore_progressAlways(r, res, raises) ==
    LET finished ==
          IF r.progress
          THEN [r EXCEPT !.events = Append(r.events, Progress(1, r.total, r.total))]
          ELSE r
    IN  IF res # "ok" THEN JobResult(finished, FALSE, Some(res))
        ELSE IF raises THEN JobResult(finished, FALSE, Some("CallbackError"))
        ELSE JobResult(finished, TRUE, None)

\* The rest of run once the core call has ended with res: an exception goes
\* to the except clause; otherwise progress(1.0, total, total), if a callback
\* was given, and the result.
AfterCore(r, res, raises) ==
    IF res # "ok" THEN JobResult(r, FALSE, Some(res))
    ELSE LET finished ==
               IF r.progress
               THEN [r EXCEPT !.events = Append(r.events, Progress(1, r.total, r.total))]
               ELSE r
         IN  IF raises THEN JobResult(finished, FALSE, Some("CallbackError"))
             ELSE JobResult(finished, TRUE, None)

\* CompressionJob.run(progress) up to the call of compress_file.  progress
\* tells whether a callback was given, raises whether the callback raises.
CompressionJob_run(progress, raises) ==
    LET total == plan.input_size
        r == [NoRun EXCEPT !.kind = "compress", !.progress = progress, !.total = total]
        started == IF progress THEN [r EXCEPT !.events = <<Progress(0, 0, total)>>] ELSE r
    IN  /\ plan.kind = "compression"
        /\ run.stage = "idle"
        /\ pc = "idle"
        /\ raises => progress
        /\ run' = IF ~plan.can_compress
                  THEN JobResult(r, FALSE, Some("RuntimeError"))
                  ELSE IF raises THEN JobResult(started, FALSE, Some("CallbackError"))
                  ELSE [started EXCEPT !.stage = "core"]
        /\ UNCHANGED <<regVars, plan>>
        /\ FrontUnchanged

\* comp.compress_file(src, dest, algo=options.algo, strategy=options.strategy,
\* level=options.level), called by CompressionJob.run
CompressionJob_core ==
    /\ run.kind = "compress"
    /\ run.stage = "core"
    /\ compress_file(plan.options.algo, Some(plan.options.strategy), plan.options.level)

\* CompressionJob.run once compress_file has returned or raised
CompressionJob_return(raises) ==
    /\ run.kind = "compress"
    /\ run.stage = "core"
    /\ pc = "c_done"
    /\ raises => run.progress /\ cres = "ok"
    /\ run' = AfterCore(run, cres, raises)
    /\ UNCHANGED <<regVars, plan>>
    /\ FrontUnchanged

\* run without the test of can_decompress
InspectionAllows_anyBackend(inspection) ==
    inspection.is_compresso /\ inspection.header_ok

\* The three tests DecompressionJob.run makes before it calls the core.
InspectionAllows(inspection) ==
    inspection.is_compresso /\ inspection.header_ok /\ inspection.can_decompress

\* DecompressionJob.run(progress) up to the call of decompress_file
DecompressionJob_run(progress, raises) ==
    LET inspection == plan.inspection
        total == IF IsNone(inspection.orig_size) THEN 0 ELSE Val(inspection.orig_size)
        r == [NoRun EXCEPT !.kind = "decompress", !.progress = progress, !.total = total]
        started == IF progress THEN [r EXCEPT !.events = <<Progress(0, 0, total)>>] ELSE r
    IN  /\ plan.kind = "decompression"
        /\ run.stage = "idle"
        /\ pc = "c_done"
        /\ cres = "ok"
        /\ raises => progress
        /\ run' = IF ~InspectionAllows(inspection)
                  THEN JobResult(r, FALSE, Some("RuntimeError"))
                  ELSE IF raises THEN JobResult(started, FALSE, Some("CallbackError"))
                  ELSE [started EXCEPT !.stage = "core"]
        /\ UNCHANGED <<regVars, plan>>
        /\ FrontUnchanged

\* comp.decompress_file(src, dest), called by DecompressionJob.run
DecompressionJob_core ==
    /\ run.kind = "decompress"
    /\ run.stage = "core"
    /\ decompress_file(None)

\* DecompressionJob.run once decompress_file has returned or raised
DecompressionJob_return(raises) ==
    /\ run.kind = "decompress"
    /\ run.stage = "core"
    /\ pc = "d_done"
    /\ raises => run.progress /\ dres = "ok"
    /\ run' = AfterCore(run, dres, raises)
    /\ UNCHANGED <<regVars, plan>>
    /\ FrontUnchanged

-----------------------------------------------------------------------------
(* Plans and jobs over the pipeline *)

OptionsInputs ==
    { CompressionOptions(None, Codes.balanced, None),
      CompressionOptions(None, Codes.fast, Some(3)),
      CompressionOptions(Some(<<>>), Codes.max_ratio, None),
      CompressionOptions(Some(Codes.zlib), Codes.balanced, None),
      CompressionOptions(Some(Variant(Codes.zlib, {1})), Codes.balanced, Some(10)),
      CompressionOptions(Some(Codes.lz4), Codes.balanced, None),
      CompressionOptions(Some(Codes.gzip), Codes.fast, None) }

\* The InspectResults a caller may put in a DecompressionPlan.
InspectionInputs ==
    { [NoInsp EXCEPT !.raised = "none", !.is_compresso = a, !.header_ok = b,
                     !.backend_available = c, !.can_decompress = c, !.orig_size = o] :
        a \in BOOLEAN, b \in BOOLEAN, c \in BOOLEAN, o \in {None, Some(Len(src))} }

FrontBuilds == {AlgoSet \ {"lz4"}, {}}
FrontSources == {<<>>, <<7, 255, 7>>}
FrontCaches ==
    { NoSpeedsFile, TextFile(JOther("null")),
      TextFile(JObject(DictPut(EmptyDict, Codes.zlib, GoodEntry))) }

InitFrontend ==
    /\ build \in FrontBuilds
    /\ _cap_list = None
    /\ _cap_by_name = None
    /\ _cap_by_id = None
    /\ ret = NoRet
    /\ file = NoFile
    /\ insp = NoInsp
    /\ src \in FrontSources
    /\ cfile = None
    /\ ofile = None
    /\ pc = "idle"
    /\ args = NoArgs
    /\ job = NoJob
    /\ opened = {}
    /\ cres = "none"
    /\ dres = "none"
    /\ log = <<>>
    /\ env = NoEnv
    /\ threads = NoThreads
    /\ _SPEEDS_FILE \in FrontCaches
    /\ speed = NoSpeed
    /\ plan = NoPlan
    /\ run = NoRun

NextFrontend ==
    \/ \E is_file \in BOOLEAN, options \in OptionsInputs : plan_compression(is_file, options)
    \/ \E progress \in BOOLEAN, raises \in BOOLEAN : CompressionJob_run(progress, raises)
    \/ CompressionJob_core
    \/ CompressOpen
    \/ CompressSelect
    \/ CompressHeader
    \/ CompressChunk
    \/ CompressFinish
    \/ CompressRewrite
    \/ CompressClose
    \/ \E kind \in {"Error", "BackendError"} : CompressStepFails(kind)
    \/ \E raises \in BOOLEAN : CompressionJob_return(raises)
    \/ \E kind \in {"truncate", "algo_id"} : Tamper(kind)
    \/ plan_decompression
    \/ \E inspection \in InspectionInputs : DecompressionPlan(inspection)
    \/ \E progress \in BOOLEAN, raises \in BOOLEAN : DecompressionJob_run(progress, raises)
    \/ DecompressionJob_core
    \/ DecompressOpen
    \/ DecompressSelect
    \/ DecompressChunk
    \/ DecompressFinish
    \/ DecompressVerify
    \/ DecompressClose
    \/ DecompressStepFails
    \/ \E raises \in BOOLEAN : DecompressionJob_return(raises)

SpecFrontend == InitFrontend /\ [][NextFrontend]_vars

-----------------------------------------------------------------------------
(* Claims about plans and jobs *)

\* C16: a CompressionPlan has can_compress true only if src is an existing
\* file and backend_name names a backend in the registry, whether the backend
\* was picked by strategy or given by options.algo; an explicit algo overrides
\* the strategy and is reported in lowercase.
C16_CanCompress ==
    plan.kind = "compression" /\ plan.can_compress =>
        /\ plan.is_file
        /\ ~IsNone(plan.backend_name)
        /\ \E n \in DOMAIN FirstLoad.by_name : Codes[n] = Val(plan.backend_name)
        /\ Truthy(plan.options.algo) =>
              plan.backend_name = Some(Lower(Val(plan.options.algo)))

\* The core function of the job was entered during this run.
CoreCalled ==
    \/ run.kind = "compress" /\ pc # "idle"
    \/ run.kind = "decompress" /\ pc \notin {"idle", "c_done"}

C17_Allowed ==
    \/ run.kind = "compress" /\ plan.can_compress
    \/ /\ run.kind = "decompress"
       /\ plan.inspection.is_compresso
       /\ plan.inspection.header_ok
       /\ plan.inspection.can_decompress

\* C17: DecompressionJob.run calls decompress_file only for a plan whose
\* inspection has is_compresso, header_ok and can_decompress; for any other
\* plan it returns ok = false with a RuntimeError, having called neither
\* decompress_file nor the progress callback and with dest untouched.
\* CompressionJob.run calls compress_file only when plan.can_compress.
C17_RunGuards ==
    run.kind # "none" =>
        /\ CoreCalled => C17_Allowed
        /\ ~C17_Allowed =>
              /\ run.stage = "done"
              /\ ~run.ok
              /\ run.error = Some("RuntimeError")
              /\ run.events = <<>>
              /\ run.kind = "decompress" => IsNone(ofile) /\ dres = "none"
              /\ run.kind = "compress" => IsNone(cfile) /\ cres = "none"

\* A DecompressionJob was run on a plan whose inspection says header_ok but
\* not can_decompress, with a progress callback, and has returned.
C17_Witness ==
    /\ run.kind = "decompress"
    /\ run.stage = "done"
    /\ run.progress
    /\ plan.inspection.is_compresso /\ plan.inspection.header_ok
    /\ ~plan.inspection.can_decompress

\* The core call of this run has returned without error.
CoreSucceeded ==
    \/ run.kind = "compress" /\ pc = "c_done" /\ cres = "ok"
    \/ run.kind = "decompress" /\ pc = "d_done" /\ dres = "ok"

\* The events of a run are progress(0.0, 0, total), the core call,
\* progress(1.0, total, total) in this order, the last only after the core
\* call returned without error; a run that has returned has ok = true exactly
\* when the core call succeeded (and, when callbacksCount, no progress callback
\* raised), and carries an error exactly when ok = false.
C18_Run(callbacksCount) ==
    run.kind # "none" =>
        /\ CoreCalled /\ run.progress =>
              /\ Len(run.events) >= 1
              /\ run.events[1] = Progress(0, 0, run.total)
        /\ \A i \in DOMAIN run.events :
              run.events[i].fraction = 1 =>
                 /\ i = 2 /\ Len(run.events) = 2
                 /\ run.events[i] = Progress(1, run.total, run.total)
                 /\ CoreSucceeded
        /\ run.stage = "done" =>
              /\ run.ok <=> /\ CoreSucceeded
                            /\ callbacksCount => run.error # Some("CallbackError")
              /\ run.ok /\ run.progress => Len(run.events) = 2
              /\ run.ok <=> IsNone(run.error)

\* C18: in CompressionJob.run and DecompressionJob.run the events are ordered
\* progress(0.0, 0, total), the core call, progress(1.0, total, total), the
\* last emitted only after the core call returned without error; run returns
\* a JobResult whose ok is true exactly when the core call succeeded and no
\* progress callback raised, and whose error is set whenever ok is false.
C18_ProgressOrder == C18_Run(TRUE)

\* C18 as stated: ok is true exactly when the core call succeeded.
C18_ProgressOrder_coreOnly == C18_Run(FALSE)

\* A job ran with a progress callback, its core call succeeded, and it returned
\* ok after both progress events.
C18_Witness ==
    /\ run.kind = "decompress"
    /\ run.stage = "done"
    /\ run.ok
    /\ Len(run.events) = 2
    /\ run.total > 0

====
